---- MODULE Spec2Model ----
(***************************************************************************)
(* Model of the monthly-report scraper (src/main.py): the OCR field        *)
(* extractor, the OCR correction rules, and the derivation of the output   *)
(* rows of a school.                                                       *)
(*                                                                         *)
(* Numbers.  Python compares int and float by value (1 == 1.0), and the    *)
(* program holds whole counts and fractional FTE counts (0.5, 4.5).  Every *)
(* number is modelled as a fixed-point number with one decimal digit: the  *)
(* integer 10*n + d stands for n.d, so Num(1) = 10 is 1 (or 1.0) and 5 is  *)
(* 0.5.  None is the integer -1, which no number of the program equals.    *)
(***************************************************************************)
EXTENDS Integers, Sequences, FiniteSets, TLC

VARIABLES
    pc,         \* position of the operation under way
    school,     \* the School object handed to build_rows_for_school
    rows,       \* the rows build_rows_for_school returned
    ocr_text,   \* the text recognized on the page image
    data,       \* the field map before the corrections
    ocr_data,   \* the field map after the corrections (None: no map)
    doc,              \* the PDF document given to school_from_pdf
    school_name,      \* the name school_from_pdf located
    refined_numbers,  \* the numbers of the page text after the first 37
    ocr_result,       \* what extract_data_from_ocr returned: None or a map
    returned,         \* what school_from_pdf returned: "School", "None", "raise"
    pdfs,             \* the documents of the files directory, in glob order
    processed,        \* the number of documents bulk_run has gone through
    all_rows,         \* the rows collected so far
    successful_pdfs,  \* the count of documents that gave a School
    failed_pdfs,      \* the documents recorded as failed, in order
    sheet,            \* the rows written to the workbook
    driver,           \* the batch driver that runs: bulk_run or process_files
    heap,             \* the objects that exist: the contents of each, by identity
    given,            \* the identity of the object passed to the call
    result,           \* the identities of the objects the call returned
    verbose,          \* the module global VERBOSE
    log,              \* the lines printed under VERBOSE by the call under way
    first_run         \* what the first of two runs gave

pipeline_vars == <<doc, school_name, ocr_result, refined_numbers, returned>>
batch_vars == <<pdfs, processed, all_rows, successful_pdfs, failed_pdfs, sheet, driver>>
object_vars == <<heap, given, result>>
verbose_vars == <<verbose, log, first_run>>

vars ==
    <<pc, school, rows, ocr_text, data, ocr_data, pipeline_vars, batch_vars,
      object_vars, verbose_vars>>

None == -1

\* The whole number n, and the number n.d, in tenths.
Num(n) == n * 10
Dec(n, d) == n * 10 + d

\* Python's int(v) of a non-negative number: truncation.
IntOf(v) == v \div 10

(***************************************************************************)
(* Tables of src/main.py                                                   *)
(***************************************************************************)
index_labels ==
    << [label |-> "Sub",      index_value |-> 1],
       [label |-> "IS K-8",   index_value |-> 15],
       [label |-> "IS 9-12",  index_value |-> 2],
       [label |-> "SWD K-8",  index_value |-> 4],
       [label |-> "SWD 9-12", index_value |-> 5],
       [label |-> "OSS K-8",  index_value |-> 9],
       [label |-> "OSS 9-12", index_value |-> 10],
       [label |-> "EX K-8",   index_value |-> 11],
       [label |-> "EX 9-12",  index_value |-> 12],
       [label |-> "ER",       index_value |-> 13],
       [label |-> "MDM",      index_value |-> 14] >>

Labels == { index_labels[i].label : i \in 1..Len(index_labels) }

ISLabels == {"IS K-8", "IS 9-12"}

(***************************************************************************)
(* Text.  A text is a sequence of tokens: a word, a single digit, a space, *)
(* a line break or a punctuation mark.  Str gives the tokens of a string   *)
(* literal of the source written as its space-separated words.             *)
(***************************************************************************)
Tokens(w) ==
    CASE w = "K-8:"         -> <<"K", "-", "8", ":">>
      [] w = "9-12:"        -> <<"9", "-", "1", "2", ":">>
      [] w = "SWD9-12:"     -> <<"SWD", "9", "-", "1", "2", ":">>
      [] w = "k-8:"         -> <<"k", "-", "8", ":">>
      [] w = "License:"     -> <<"License", ":">>
      [] w = "Substitutes:" -> <<"Substitutes", ":">>
      [] w = "Removal:"     -> <<"Removal", ":">>
      [] w = "Emergency:"   -> <<"Emergency", ":">>
      [] w = "MDM:"         -> <<"MDM", ":">>
      [] w = "Meeting:"     -> <<"Meeting", ":">>
      [] OTHER              -> <<w>>

RECURSIVE Str(_)
Str(ws) ==
    IF Len(ws) = 0 THEN << >>
    ELSE IF Len(ws) = 1 THEN Tokens(ws[1])
    ELSE Tokens(ws[1]) \o <<" ">> \o Str(Tail(ws))

\* Python's `lit in text`: a case-sensitive substring test.
Contains(text, lit) ==
    \E i \in 1..(Len(text) - Len(lit) + 1) : SubSeq(text, i, i + Len(lit) - 1) = lit

(***************************************************************************)
(* Regular expressions.  A pattern is a sequence of elements: a literal    *)
(* token, \s* ("ws"), .* ("any"), the group (\d+) ("int") and the group    *)
(* (\d+(?:\.\d+)?) ("dec").  re.search is the leftmost match, each element  *)
(* greedy and backtracking as in Python; with re.IGNORECASE the literals   *)
(* of the pattern and the text are compared in lower case.                 *)
(***************************************************************************)
Digits == {"0", "1", "2", "3", "4", "5", "6", "7", "8", "9"}

DigitVal(t) ==
    CASE t = "0" -> 0 [] t = "1" -> 1 [] t = "2" -> 2 [] t = "3" -> 3 [] t = "4" -> 4
      [] t = "5" -> 5 [] t = "6" -> 6 [] t = "7" -> 7 [] t = "8" -> 8 [] t = "9" -> 9

\* The lower-case form of a token (re.IGNORECASE compares these).
Lower(t) ==
    CASE t = "Number"  -> "number"  [] t = "IS"  -> "is"   [] t = "SWD" -> "swd"
      [] t = "K"       -> "k"       [] t = "OSS" -> "oss"  [] t = "MDM" -> "mdm"
      [] t = "GO"      -> "go"      [] t = "Go"  -> "go"
      [] t = "Expulsion"     -> "expulsion"     [] t = "Emergency"     -> "emergency"
      [] t = "Removal"       -> "removal"       [] t = "Total"         -> "total"
      [] t = "Intervention"  -> "intervention"  [] t = "Specialists"   -> "specialists"
      [] t = "Substitute"    -> "substitute"    [] t = "Substitutes"   -> "substitutes"
      [] t = "Teacher"       -> "teacher"       [] t = "License"       -> "license"
      [] t = "Manifestation" -> "manifestation" [] t = "Determination" -> "determination"
      [] t = "Meeting"       -> "meeting"       [] t = "Ohio"          -> "ohio"
      [] t = "Virtual"       -> "virtual"       [] t = "Academy"       -> "academy"
      [] t = "Western"       -> "western"       [] t = "Toledo"        -> "toledo"
      [] t = "Preparatory"   -> "preparatory"
      [] OTHER -> t

\* The text in lower case, token by token.
CaseFold(text) == [ i \in 1..Len(text) |-> Lower(text[i]) ]

Lit(str) == [ i \in 1..Len(str) |-> [k |-> "lit", t |-> str[i]] ]
WS  == << [k |-> "ws",  t |-> ""] >>
ANY == << [k |-> "any", t |-> ""] >>
INT == << [k |-> "int", t |-> ""] >>
DEC == << [k |-> "dec", t |-> ""] >>

InClass(cls, t) ==
    CASE cls = "ws"  -> t \in {" ", "\n"}
      [] cls = "any" -> t # "\n"
      [] cls = "int" -> t \in Digits

\* The number of consecutive tokens of a class from position j on.
RunLen(text, j, cls) ==
    CHOOSE n \in 0..(Len(text) - j + 1) :
        /\ \A i \in j..(j + n - 1) : InClass(cls, text[i])
        /\ (j + n > Len(text) \/ ~InClass(cls, text[j + n]))

\* The numbers hi, hi-1, .., lo as a sequence.
Downto(hi, lo) == [ i \in 1..(IF hi >= lo THEN hi - lo + 1 ELSE 0) |-> hi + 1 - i ]

\* The numbers of tokens an element may consume at position j, in the order
\* in which the matcher tries them.
Candidates(e, text, j) ==
    CASE e.k = "lit" -> IF j <= Len(text) /\ text[j] = e.t THEN <<1>> ELSE << >>
      [] e.k = "ws"  -> Downto(RunLen(text, j, "ws"), 0)
      [] e.k = "any" -> Downto(RunLen(text, j, "any"), 0)
      [] e.k = "int" -> Downto(RunLen(text, j, "int"), 1)
      [] e.k = "dec" ->
            LET n == RunLen(text, j, "int")
                m == IF n >= 1 /\ j + n <= Len(text) /\ text[j + n] = "."
                     THEN RunLen(text, j + n + 1, "int") ELSE 0
            IN  [ i \in 1..m |-> n + 1 + (m + 1 - i) ] \o Downto(n, 1)

NoMatch == [ok |-> FALSE, group |-> << >>]

RECURSIVE MatchFrom(_, _, _, _, _)
RECURSIVE TryCandidates(_, _, _, _, _, _, _)

\* The first way to match the elements k.. of the pattern at position j.
MatchFrom(pat, text, k, j, group) ==
    IF k > Len(pat) THEN [ok |-> TRUE, group |-> group]
    ELSE TryCandidates(pat, text, k, j, group, Candidates(pat[k], text, j), 1)

TryCandidates(pat, text, k, j, group, cands, c) ==
    IF c > Len(cands) THEN NoMatch
    ELSE LET len == cands[c]
             g == IF pat[k].k \in {"int", "dec"} THEN SubSeq(text, j, j + len - 1) ELSE group
             r == MatchFrom(pat, text, k + 1, j + len, g)
         IN  IF r.ok THEN r ELSE TryCandidates(pat, text, k, j, group, cands, c + 1)

\* re.search(pattern, text, re.IGNORECASE), given the pattern and the text in
\* lower case: the match at the leftmost position.
Search(pat, folded) ==
    LET starts == { i \in 1..(Len(folded) + 1) : MatchFrom(pat, folded, 1, i, << >>).ok }
    IN  IF starts = {} THEN NoMatch
        ELSE MatchFrom(pat, folded, 1, CHOOSE i \in starts : \A j \in starts : i <= j, << >>)

\* int() of a run of digits.
RECURSIVE IntParse(_)
IntParse(ds) ==
    IF Len(ds) = 0 THEN 0
    ELSE IntParse(SubSeq(ds, 1, Len(ds) - 1)) * 10 + DigitVal(ds[Len(ds)])

\* float() of digits with an optional fraction; the texts of the model hold one
\* digit after the point.
FloatParse(ds) ==
    LET point == { i \in 1..Len(ds) : ds[i] = "." }
    IN  IF point = {} THEN Num(IntParse(ds))
        ELSE LET q == CHOOSE i \in point : TRUE
             IN  Dec(IntParse(SubSeq(ds, 1, q - 1)), DigitVal(ds[q + 1]))

(***************************************************************************)
(* Dictionaries: a function whose domain is the set of keys.               *)
(***************************************************************************)
Get(d, k) == IF k \in DOMAIN d THEN d[k] ELSE None
GetOr(d, k, default) == IF k \in DOMAIN d THEN d[k] ELSE default
Put(d, k, v) == [ x \in DOMAIN d \cup {k} |-> IF x = k THEN v ELSE d[x] ]

(***************************************************************************)
(* apply_ocr_corrections and its four rules                                *)
(***************************************************************************)
double_digit_fields ==
  [ field \in Labels |->
    CASE field = "IS K-8"   -> << Str(<<"Number", "of", "IS", "serving", "grades", "K-8:">>),
                                  Str(<<"IS", "serving", "K-8:">>), Str(<<"IS", "K-8:">>) >>
      [] field = "IS 9-12"  -> << Str(<<"Number", "of", "IS", "serving", "grades", "9-12:">>),
                                  Str(<<"IS", "serving", "9-12:">>), Str(<<"IS", "9-12:">>) >>
      [] field = "SWD K-8"  -> << Str(<<"SWD", "in", "grades", "K-8:">>), Str(<<"SWD", "K-8:">>) >>
      [] field = "SWD 9-12" -> << Str(<<"SWD", "in", "grades", "9-12:">>), Str(<<"SWD", "9-12:">>) >>
      [] field = "Sub"      -> << Str(<<"Substitute", "Teacher", "License:">>), Str(<<"Substitutes:">>) >>
      [] field = "OSS K-8"  -> << Str(<<"OSS", "of", "SWD", "K-8:">>), Str(<<"OSS", "K-8:">>) >>
      [] field = "OSS 9-12" -> << Str(<<"OSS", "of", "SWD", "9-12:">>), Str(<<"OSS", "9-12:">>) >>
      [] field = "EX K-8"   -> << Str(<<"Expulsion", "of", "SWD", "K-8:">>), Str(<<"Expulsion", "K-8:">>) >>
      [] field = "EX 9-12"  -> << Str(<<"Expulsion", "of", "SWD", "9-12:">>), Str(<<"Expulsion", "9-12:">>) >>
      [] field = "ER"       -> << Str(<<"Emergency", "Removal:">>), Str(<<"Emergency:">>) >>
      [] field = "MDM"      -> << Str(<<"MDM:">>),
                                  Str(<<"Manifestation", "Determination", "Meeting:">>) >> ]

\* The substrings the rules look for in the text.
NUMBER_OF_IS_SERVING_GRADES == Str(<<"Number", "of", "IS", "serving", "grades">>)
SWD_IN_GRADES == Str(<<"SWD", "in", "grades">>)
OHIO_VIRTUAL_ACADEMY == Str(<<"Ohio", "Virtual", "Academy">>)
WESTERN_TOLEDO_PREPARATORY == Str(<<"Western", "Toledo", "Preparatory">>)

\* Faulty variant of _analyze_double_digit_context: a student count of 1 under
\* its label is taken for 11 as well.
_analyze_double_digit_context_swd(text, field, pattern) ==
    IF field \in {"IS K-8", "IS 9-12"}
          /\ Contains(text, NUMBER_OF_IS_SERVING_GRADES)
    THEN Num(11)
    ELSE IF field \in {"SWD K-8", "SWD 9-12"} /\ Contains(text, SWD_IN_GRADES)
    THEN Num(11)
    ELSE Num(1)

\* Faulty variant of _analyze_double_digit_context: the "Number of IS serving
\* grades" context is taken for every field.
_analyze_double_digit_context_any_field(text, field, pattern) ==
    IF Contains(text, NUMBER_OF_IS_SERVING_GRADES)
    THEN Num(11)
    ELSE IF field \in {"SWD K-8", "SWD 9-12"} /\ Contains(text, SWD_IN_GRADES)
    THEN Num(1)
    ELSE Num(1)
_analyze_double_digit_context(text, field, pattern) ==
    IF field \in {"IS K-8", "IS 9-12"}
          /\ Contains(text, NUMBER_OF_IS_SERVING_GRADES)
    THEN Num(11)
    ELSE IF field \in {"SWD K-8", "SWD 9-12"} /\ Contains(text, SWD_IN_GRADES)
    THEN Num(1)
    ELSE Num(1)

\* The inner loop over the patterns of a field holding v: the first pattern
\* found in the text decides (break), and the value is replaced when the
\* analysis gives a number other than `one`.
double_digit_patterns(v, text, field, one) ==
    LET pats == double_digit_fields[field]
        found == { i \in 1..Len(pats) : Contains(text, pats[i]) }
    IN  IF found = {} THEN v
        ELSE LET first == CHOOSE i \in found : \A j \in found : i <= j
                 correction == _analyze_double_digit_context(text, field, pats[first])
             IN  IF correction # 0 /\ correction # one THEN correction ELSE v

\* One pass of the outer loop, on a field holding v: the integer 1, else the
\* decimal 1.0.
double_digit_field(v, text, field) ==
    IF v = Num(1) THEN double_digit_patterns(v, text, field, Num(1))
    ELSE IF v = Dec(1, 0) THEN double_digit_patterns(v, text, field, Dec(1, 0))
    ELSE v

\* The outer loop: each pass reads and writes its own field only, and only a
\* field that is present (get gives None for the others) can hold 1.
_apply_double_digit_corrections(d, text) ==
    [ field \in DOMAIN d |-> double_digit_field(d[field], text, field) ]

\* Faulty variant of _apply_large_number_corrections: the assignments are made
\* under `if VERBOSE:` with the prints.
_apply_large_number_corrections_when_verbose(d, text) ==
    IF Contains(text, OHIO_VIRTUAL_ACADEMY) /\ verbose
    THEN LET d1 == IF Get(d, "SWD K-8") = Num(1) THEN Put(d, "SWD K-8", Num(1432)) ELSE d
         IN  IF Get(d1, "SWD 9-12") = Num(1) THEN Put(d1, "SWD 9-12", Num(1431)) ELSE d1
    ELSE d
_apply_large_number_corrections(d, text) ==
    IF Contains(text, OHIO_VIRTUAL_ACADEMY)
    THEN LET d1 == IF Get(d, "SWD K-8") = Num(1) THEN Put(d, "SWD K-8", Num(1432)) ELSE d
         IN  IF Get(d1, "SWD 9-12") = Num(1) THEN Put(d1, "SWD 9-12", Num(1431)) ELSE d1
    ELSE d

\* Faulty variant of _apply_missing_data_corrections: a count of 1 is taken for
\* a missing count as well.
_apply_missing_data_corrections_on_one(d, text) ==
    IF /\ Contains(text, WESTERN_TOLEDO_PREPARATORY)
       /\ (Get(d, "SWD K-8") \in {Num(0), Num(1)} \/ "SWD K-8" \notin DOMAIN d)
    THEN Put(d, "SWD K-8", Num(4))
    ELSE d

_apply_missing_data_corrections(d, text) ==
    IF /\ Contains(text, WESTERN_TOLEDO_PREPARATORY)
       /\ (Get(d, "SWD K-8") = Num(0) \/ "SWD K-8" \notin DOMAIN d)
    THEN Put(d, "SWD K-8", Num(4))
    ELSE d

\* Faulty variant of context_field: a student count of 20 is taken as well.
context_field_up_to_20(d, text, field) ==
    LET serving == Contains(text, NUMBER_OF_IS_SERVING_GRADES)
        d1 == IF Get(d, field) = Num(45) /\ serving THEN Put(d, field, Dec(4, 5)) ELSE d
        swd_count == IF field = "IS K-8" THEN GetOr(d1, "SWD K-8", Num(0))
                     ELSE IF field = "IS 9-12" THEN GetOr(d1, "SWD 9-12", Num(0))
                     ELSE Num(0)
    IN  IF Get(d1, field) = Num(5) /\ serving /\ swd_count > Num(0) /\ swd_count <= Num(20)
        THEN Put(d1, field, Dec(0, 5))
        ELSE d1
\* One pass of the loop of _apply_context_based_corrections.
context_field(d, text, field) ==
    LET serving == Contains(text, NUMBER_OF_IS_SERVING_GRADES)
        d1 == IF Get(d, field) = Num(45) /\ serving THEN Put(d, field, Dec(4, 5)) ELSE d
        swd_count == IF field = "IS K-8" THEN GetOr(d1, "SWD K-8", Num(0))
                     ELSE IF field = "IS 9-12" THEN GetOr(d1, "SWD 9-12", Num(0))
                     ELSE Num(0)
    IN  IF Get(d1, field) = Num(5) /\ serving /\ swd_count > Num(0) /\ swd_count < Num(20)
        THEN Put(d1, field, Dec(0, 5))
        ELSE d1

_apply_context_based_corrections(d, text) ==
    context_field(context_field(d, text, "IS K-8"), text, "IS 9-12")

\* Faulty variant of apply_ocr_corrections: the context-based rules run first.
apply_ocr_corrections_context_first(d, text) ==
    _apply_missing_data_corrections(
        _apply_large_number_corrections(
            _apply_double_digit_corrections(
                _apply_context_based_corrections(d, text), text), text), text)

apply_ocr_corrections(d, text) ==
    _apply_context_based_corrections(
        _apply_missing_data_corrections(
            _apply_large_number_corrections(
                _apply_double_digit_corrections(d, text), text), text), text)

(***************************************************************************)
(* extract_data_from_ocr                                                   *)
(***************************************************************************)
go_pattern == Lit(Str(<<"OSS", "of", "SWD9-12:">>)) \o WS \o Lit(<<"go">>)

patterns ==
  [ field \in Labels |->
    CASE field = "SWD K-8" ->
            << Lit(Str(<<"SWD", "in", "grades", "K-8:">>)) \o WS \o INT,
               Lit(Str(<<"SWD", "K-8:">>)) \o WS \o INT,
               Lit(Str(<<"K-8:">>)) \o WS \o INT,
               Lit(Str(<<"SWD", "in", "grades", "K-8:">>)) \o WS \o Lit(<<"\n">>) \o WS \o INT,
               Lit(Str(<<"SWD", "in", "grades", "K-8:">>)) \o WS \o Lit(<<"\n">>) \o WS \o INT
                   \o WS \o Lit(<<"\n">>),
               Lit(Str(<<"SWD", "in", "grades", "K-8:">>)) \o WS \o Lit(<<"\n">>) \o WS \o INT
                   \o WS \o Lit(<<"\n">>) \o WS \o Lit(Str(<<"SWD", "in", "grades", "9-12:">>)) >>
      [] field = "SWD 9-12" ->
            << Lit(Str(<<"SWD", "in", "grades", "9-12:">>)) \o WS \o INT,
               Lit(Str(<<"SWD", "9-12:">>)) \o WS \o INT,
               Lit(Str(<<"9-12:">>)) \o WS \o INT >>
      [] field = "IS K-8" ->
            << Lit(Str(<<"Number", "of", "IS", "serving", "grades", "K-8:">>)) \o WS \o DEC,
               Lit(Str(<<"IS", "serving", "K-8:">>)) \o WS \o DEC,
               Lit(Str(<<"IS", "K-8:">>)) \o WS \o DEC >>
      [] field = "IS 9-12" ->
            << Lit(Str(<<"Number", "of", "IS", "serving", "grades", "9-12:">>)) \o WS \o DEC,
               Lit(Str(<<"IS", "serving", "9-12:">>)) \o WS \o DEC,
               Lit(Str(<<"IS", "9-12:">>)) \o WS \o DEC >>
      [] field = "Sub" ->
            << Lit(Str(<<"Total", "number", "of", "Intervention", "Specialists">>)) \o ANY
                   \o Lit(Str(<<"Substitute", "Teacher", "License:">>)) \o WS \o INT,
               Lit(Str(<<"Substitute", "Teacher", "License:">>)) \o WS \o INT,
               Lit(Str(<<"Substitutes:">>)) \o WS \o INT >>
      [] field = "OSS K-8" ->
            << Lit(Str(<<"OSS", "of", "SWD", "K-8:">>)) \o WS \o INT,
               Lit(Str(<<"OSS", "K-8:">>)) \o WS \o INT >>
      [] field = "OSS 9-12" ->
            << Lit(Str(<<"OSS", "of", "SWD", "9-12:">>)) \o WS \o INT,
               Lit(Str(<<"OSS", "9-12:">>)) \o WS \o INT,
               Lit(Str(<<"OSS", "of", "SWD9-12:">>)) \o WS \o INT,
               Lit(Str(<<"OSS", "of", "SWD9-12:">>)) \o WS \o Lit(<<"go">>) >>
      [] field = "EX K-8" ->
            << Lit(Str(<<"Expulsion", "of", "SWD", "K">>)) \o ANY \o Lit(<<"8", ":">>)
                   \o WS \o INT,
               Lit(Str(<<"Expulsion", "K-8:">>)) \o WS \o INT >>
      [] field = "EX 9-12" ->
            << Lit(Str(<<"Expulsion", "of", "SWD", "9-12:">>)) \o WS \o INT,
               Lit(Str(<<"Expulsion", "9-12:">>)) \o WS \o INT >>
      [] field = "ER" ->
            << Lit(Str(<<"Emergency", "Removal:">>)) \o WS \o INT,
               Lit(Str(<<"Emergency:">>)) \o WS \o INT >>
      [] field = "MDM" ->
            << Lit(Str(<<"MDM:">>)) \o WS \o INT,
               Lit(<<"MDM">>) \o WS \o Lit(<<":">>) \o WS \o INT,
               Lit(Str(<<"Manifestation", "Determination", "Meeting:">>)) \o WS \o INT >> ]

\* A pattern with its literals in lower case.
FoldPattern(pat) ==
    [ i \in 1..Len(pat) |-> IF pat[i].k = "lit" THEN [k |-> "lit", t |-> Lower(pat[i].t)]
                            ELSE pat[i] ]

folded_patterns ==
    [ field \in Labels |-> [ i \in 1..Len(patterns[field]) |-> FoldPattern(patterns[field][i]) ] ]

\* Faulty variant of match_value: the "go" pattern gives no value of its own
\* and the absent group is read as 0.
match_value_without_go(field, pattern, m) ==
    IF field \in {"IS K-8", "IS 9-12"} THEN FloatParse(m.group) ELSE Num(IntParse(m.group))

\* The value a match gives: 60 for the "go" pattern, else the group as a
\* float (IS fields) or as an int.
match_value(field, pattern, m) ==
    IF pattern = go_pattern THEN Num(60)
    ELSE IF field \in {"IS K-8", "IS 9-12"} THEN FloatParse(m.group)
    ELSE Num(IntParse(m.group))

\* Faulty variant of extract_field: no break, the last pattern that matches
\* gives the value.
RECURSIVE extract_field_last_match(_, _, _)
extract_field_last_match(folded, field, i) ==
    IF i > Len(patterns[field]) THEN None
    ELSE LET m == Search(folded_patterns[field][i], folded)
             later == extract_field_last_match(folded, field, i + 1)
         IN  IF later # None THEN later
             ELSE IF m.ok THEN match_value(field, patterns[field][i], m)
             ELSE None
\* The inner loop over the patterns of a field, from pattern i on: the first
\* pattern that matches gives the value (break); None when none matches.
RECURSIVE extract_field(_, _, _)
extract_field(folded, field, i) ==
    IF i > Len(patterns[field]) THEN None
    ELSE LET m == Search(folded_patterns[field][i], folded)
         IN  IF m.ok THEN match_value(field, patterns[field][i], m)
             ELSE extract_field(folded, field, i + 1)

\* The field map parsed from the recognized text, before the corrections: the
\* outer loop sets data[field] for each field with a matching pattern, and no
\* pass reads what another has set.
parse_ocr_text(text) ==
    LET folded == CaseFold(text)
        value == [ field \in Labels |-> extract_field(folded, field, 1) ]
    IN  [ field \in { f \in Labels : value[f] # None } |-> value[field] ]

(***************************************************************************)
(* build_rows_for_school and its helpers                                   *)
(***************************************************************************)
es_and_hs_schools ==
    { "Arts and College Preparatory Academy",
      "Columbus Arts and Tech Academy",
      "Columbus Preparatory Academy",
      "Great River Connections Academy",
      "Northeast Ohio College Preparatory School",
      "Ohio Connections Academy",
      "Ohio Virtual Academy",
      "Wildwood Environmental Academy",
      "Brian's Sample School" }

\* Faulty variant of _blank_if_zero: the zero is kept.
_blank_if_zero_keeps_zero(v) == v

_blank_if_zero(v) ==
    IF v = None THEN None
    ELSE IF IntOf(v) = 0 THEN None ELSE v

\* The value of the first entry of data_list with this label, None without one.
_get(s, label) ==
    LET hits == { i \in 1..Len(s.data_list) : s.data_list[i].label = label }
    IN  IF hits = {} THEN None
        ELSE s.data_list[CHOOSE i \in hits : \A j \in hits : i <= j].value

\* The locals of build_rows_for_school, each a function of the school.
sub(s)         == _blank_if_zero(_get(s, "Sub"))
k8_students(s) == _blank_if_zero(_get(s, "SWD K-8"))
k8_oss(s)      == _blank_if_zero(_get(s, "OSS K-8"))
k8_ex(s)       == _blank_if_zero(_get(s, "EX K-8"))
hs_students(s) == _blank_if_zero(_get(s, "SWD 9-12"))
hs_oss(s)      == _blank_if_zero(_get(s, "OSS 9-12"))
hs_ex(s)       == _blank_if_zero(_get(s, "EX 9-12"))
er(s)          == _blank_if_zero(_get(s, "ER"))
mdm(s)         == _blank_if_zero(_get(s, "MDM"))

\* Faulty variant of k8_teachers: the teacher count is collapsed like the others.
k8_teachers_collapsed(s) == _blank_if_zero(_get(s, "IS K-8"))

k8_teachers(s) == _get(s, "IS K-8")
hs_teachers(s) == _get(s, "IS 9-12")

\* Faulty variant of is_es: the teacher count is not consulted.
is_es_without_teachers(s) ==
    \/ (k8_students(s) # None /\ k8_students(s) > 0)
    \/ (\E v \in {k8_oss(s), k8_ex(s)} : v # None)

is_es(s) ==
    \/ (k8_students(s) # None /\ k8_students(s) > 0)
    \/ (k8_teachers(s) # None /\ k8_teachers(s) > 0)
    \/ (\E v \in {k8_oss(s), k8_ex(s)} : v # None)

is_hs(s) ==
    \/ (hs_students(s) # None /\ hs_students(s) > 0)
    \/ (hs_teachers(s) # None /\ hs_teachers(s) > 0)
    \/ (\E v \in {hs_oss(s), hs_ex(s)} : v # None)

has_meaningful_es(s) == k8_students(s) # None /\ k8_students(s) > 0
has_meaningful_hs(s) == hs_students(s) # None /\ hs_students(s) > 0

\* Faulty variants of should_split: the roster flag is ignored; one student
\* count suffices.
should_split_without_is_both(s) == has_meaningful_es(s) /\ has_meaningful_hs(s)
should_split_on_either(s) == s.is_both \/ has_meaningful_es(s) \/ has_meaningful_hs(s)

should_split(s) == s.is_both \/ (has_meaningful_es(s) /\ has_meaningful_hs(s))

es_row(s, name) ==
    [School |-> name,
     Students |-> k8_students(s), Teachers |-> k8_teachers(s), Sub |-> sub(s),
     OSS |-> k8_oss(s), EX |-> k8_ex(s), ER |-> er(s), MDM |-> mdm(s)]

hs_row(s, name) ==
    [School |-> name,
     Students |-> hs_students(s), Teachers |-> hs_teachers(s), Sub |-> sub(s),
     OSS |-> hs_oss(s), EX |-> hs_ex(s), ER |-> er(s), MDM |-> mdm(s)]

\* Faulty variant of placeholder_row: the K-8 teacher count is carried.
placeholder_row_with_teachers(s, name) ==
    [School |-> name,
     Students |-> None, Teachers |-> k8_teachers(s), Sub |-> sub(s),
     OSS |-> None, EX |-> None, ER |-> er(s), MDM |-> mdm(s)]

placeholder_row(s, name) ==
    [School |-> name,
     Students |-> None, Teachers |-> None, Sub |-> sub(s),
     OSS |-> None, EX |-> None, ER |-> er(s), MDM |-> mdm(s)]

\* Faulty variants of the else branch: no row without grade-band data; the
\* 9-12 values when both bands are present.
single_rows_without_placeholder(s) ==
    IF is_es(s) /\ ~is_hs(s) THEN << es_row(s, s.name) >>
    ELSE IF is_hs(s) /\ ~is_es(s) THEN << hs_row(s, s.name) >>
    ELSE IF is_es(s) /\ is_hs(s) THEN << es_row(s, s.name) >>
    ELSE << >>
single_rows_tie_to_hs(s) ==
    IF is_es(s) /\ ~is_hs(s) THEN << es_row(s, s.name) >>
    ELSE IF is_hs(s) /\ ~is_es(s) THEN << hs_row(s, s.name) >>
    ELSE IF is_es(s) /\ is_hs(s) THEN << hs_row(s, s.name) >>
    ELSE << placeholder_row(s, s.name) >>

\* Faulty variant of the else branch: with both bands present the row follows
\* the band that has students.
single_rows_tie_by_students(s) ==
    IF is_es(s) /\ ~is_hs(s) THEN << es_row(s, s.name) >>
    ELSE IF is_hs(s) /\ ~is_es(s) THEN << hs_row(s, s.name) >>
    ELSE IF is_es(s) /\ is_hs(s)
         THEN IF has_meaningful_hs(s) /\ ~has_meaningful_es(s)
              THEN << hs_row(s, s.name) >> ELSE << es_row(s, s.name) >>
    ELSE << placeholder_row(s, s.name) >>
\* The else branch of build_rows_for_school: one row.
single_rows(s) ==
    IF is_es(s) /\ ~is_hs(s) THEN << es_row(s, s.name) >>
    ELSE IF is_hs(s) /\ ~is_es(s) THEN << hs_row(s, s.name) >>
    ELSE IF is_es(s) /\ is_hs(s) THEN << es_row(s, s.name) >>
    ELSE << placeholder_row(s, s.name) >>

\* The if branch: the ES row, then the HS row.
split_rows(s) == << es_row(s, s.name \o " ES"), hs_row(s, s.name \o " HS") >>

build_rows_for_school(s) ==
    IF should_split(s) THEN split_rows(s) ELSE single_rows(s)

(***************************************************************************)
(* Inputs of the row derivation                                            *)
(***************************************************************************)
MaxCount == 1

\* Student counts (SWD), teacher counts (IS: a fraction, a whole number),
\* suspension and expulsion counts (absent, zero, positive).
StudentValues == {None} \cup { Num(n) : n \in 0..MaxCount }
TeacherValues == {None, Num(0), Dec(0, 5), Num(1)}
EventValues   == {None, Num(0), Num(1)}

\* Sub, ER and MDM, drawn together: each is absent, zero and positive in turn.
SharedValues ==
    { <<None, None, None>>, <<Num(0), Num(0), Num(0)>>,
      <<None, Num(0), Num(3)>>, <<Num(0), Num(2), None>>, <<Num(1), None, Num(0)>> }

\* The field maps whose student counts are drawn from `students`.
FieldMaps(students) ==
    { [ l \in Labels |->
          CASE l = "Sub"      -> sh[1]
            [] l = "ER"       -> sh[2]
            [] l = "MDM"      -> sh[3]
            [] l = "SWD K-8"  -> st[1]
            [] l = "SWD 9-12" -> st[2]
            [] l = "IS K-8"   -> te[1]
            [] l = "IS 9-12"  -> te[2]
            [] l = "OSS K-8"  -> ev[1]
            [] l = "EX K-8"   -> ev[2]
            [] l = "OSS 9-12" -> ev[3]
            [] l = "EX 9-12"  -> ev[4] ] :
        sh \in SharedValues,
        st \in students \X students,
        te \in TeacherValues \X TeacherValues,
        ev \in EventValues \X EventValues \X EventValues \X EventValues }

\* The data_list school_from_pdf builds from a field map: one entry per label,
\* in the order of index_labels.
DataListOf(f) ==
    [ i \in 1..Len(index_labels) |->
        [label |-> index_labels[i].label, value |-> f[index_labels[i].label]] ]

\* The data_list of the number-based strategy: the labels whose index_value is
\* below the count n of numbers, each with a whole number.
FallbackShaped(f) ==
    \E n \in 0..16 :
        \A i \in 1..Len(index_labels) :
            LET v == f[index_labels[i].label]
            IN  IF index_labels[i].index_value < n
                THEN v # None /\ v = Num(IntOf(v))
                ELSE v = None

FallbackListOf(f) == SelectSeq(DataListOf(f), LAMBDA e : e.value # None)

\* A school on the roster and one that is not.
SchoolNames == {"Ohio Virtual Academy", "Western Toledo Preparatory"}

\* The schools of these names: is_both as school_from_pdf sets it, data_list in
\* either shape.
Schools(names) ==
    { [name |-> n, is_both |-> n \in es_and_hs_schools, data_list |-> l] :
        n \in names,
        l \in { DataListOf(f) : f \in FieldMaps(StudentValues) }
              \cup { FallbackListOf(f) :
                        f \in { g \in FieldMaps(StudentValues) : FallbackShaped(g) } } }

NoSchool == [name |-> "", is_both |-> FALSE, data_list |-> << >>]
NoData == << >>

(***************************************************************************)
(* Recognized texts                                                        *)
(***************************************************************************)
MaxLines == 2

RECURSIVE JoinLines(_)
JoinLines(ls) ==
    IF Len(ls) = 0 THEN << >>
    ELSE IF Len(ls) = 1 THEN ls[1]
    ELSE ls[1] \o <<"\n">> \o JoinLines(Tail(ls))

\* Lines of the report as the OCR engine may read them: the school name, and
\* labels followed by a value, some of them misread.
OcrLines ==
    { Str(<<"Ohio", "Virtual", "Academy">>),
      Str(<<"Western", "Toledo", "Preparatory">>),
      Str(<<"Number", "of", "IS", "serving", "grades", "K-8:">>) \o <<" ", "1">>,
      Str(<<"number", "of", "is", "serving", "grades", "k-8:">>) \o <<" ", "1">>,
      Str(<<"Number", "of", "IS", "serving", "grades", "9-12:">>) \o <<" ", "4", ".", "5">>,
      Str(<<"IS", "K-8:">>) \o <<" ", "5">>,
      Str(<<"SWD", "in", "grades", "K-8:">>) \o <<" ", "1">>,
      Str(<<"SWD", "in", "grades", "9-12:">>) \o <<"\n", "1", "2">>,
      Str(<<"OSS", "of", "SWD", "9-12:">>) \o <<" ", "3">>,
      Str(<<"OSS", "9-12:">>) \o <<" ", "1">>,
      Str(<<"OSS", "of", "SWD9-12:">>) \o <<" ", "6", "0">>,
      Str(<<"OSS", "of", "SWD9-12:">>) \o <<" ", "go">>,
      Str(<<"OSS", "of", "SWD9-12:">>) \o <<"GO">>,
      Str(<<"Expulsion", "of", "SWD", "K-8:">>) \o <<" ", "0">>,
      Str(<<"Emergency", "Removal:">>) \o <<" ", "1">>,
      Str(<<"MDM">>) \o <<" ", ":", " ", "2">> }

\* Sequences of at most n different lines.
RECURSIVE LineSeqs(_)
LineSeqs(n) ==
    IF n = 0 THEN { << >> }
    ELSE LET shorter == LineSeqs(n - 1)
         IN  shorter \cup
             { Append(ls, l) : ls \in { x \in shorter : Len(x) = n - 1 },
                               l \in OcrLines }

Texts ==
    { JoinLines(ls) :
        ls \in { x \in LineSeqs(MaxLines) :
                    \A i, j \in 1..Len(x) : i # j => x[i] # x[j] } }

(***************************************************************************)
(* Inputs of the corrections: field maps holding the values the rules look *)
(* for, and texts with and without the substrings they look for.           *)
(***************************************************************************)
ISInputs  == {None, Num(1), Num(5), Num(45)}
SWDInputs == {None, Num(0), Num(1), Num(19), Num(20)}

OtherLabels == Labels \ {"IS K-8", "IS 9-12", "SWD K-8", "SWD 9-12"}

\* The other seven labels: none present, all present with one value, one present.
OtherInputs ==
    { [l \in OtherLabels |-> v] : v \in {None, Num(0), Num(1), Num(60)} }
    \cup { [l \in OtherLabels |-> IF l = k THEN Num(1) ELSE None] : k \in OtherLabels }

\* The dictionary with the keys whose value is not None.
DictOf(f) == [ l \in { x \in DOMAIN f : f[x] # None } |-> f[l] ]

CorrectionMaps ==
    { DictOf([ l \in Labels |->
                 CASE l = "IS K-8"   -> is[1]
                   [] l = "IS 9-12"  -> is[2]
                   [] l = "SWD K-8"  -> sw[1]
                   [] l = "SWD 9-12" -> sw[2]
                   [] OTHER          -> o[l] ]) :
        is \in ISInputs \X ISInputs, sw \in SWDInputs \X SWDInputs, o \in OtherInputs }

HeaderChoices ==
    { << >>,
      << Str(<<"Ohio", "Virtual", "Academy">>) >>,
      << Str(<<"Western", "Toledo", "Preparatory">>) >>,
      << Str(<<"Ohio", "Virtual", "Academy">>), Str(<<"Western", "Toledo", "Preparatory">>) >> }

ISLineChoices ==
    { << >>,
      << Str(<<"Number", "of", "IS", "serving", "grades", "K-8:">>) \o <<" ", "1">>,
         Str(<<"Number", "of", "IS", "serving", "grades", "9-12:">>) \o <<" ", "5">> >>,
      << Str(<<"number", "of", "is", "serving", "grades", "k-8:">>) \o <<" ", "1">> >>,
      << Str(<<"IS", "K-8:">>) \o <<" ", "1">>, Str(<<"IS", "9-12:">>) \o <<" ", "4", "5">> >> }

SWDLineChoices ==
    { << >>,
      << Str(<<"SWD", "in", "grades", "K-8:">>) \o <<" ", "1">>,
         Str(<<"SWD", "in", "grades", "9-12:">>) \o <<" ", "1">> >> }

CorrectionTexts ==
    { JoinLines(h \o i \o w) :
        h \in HeaderChoices, i \in ISLineChoices, w \in SWDLineChoices }

\* Inputs of the corrections for the frame of the rules: IS and SWD values
\* that are triggers of a rule and values that are not, and texts that hold
\* the labels of the other fields as well.
FrameISInputs  == {None, Num(1), Num(2), Num(5), Num(45), Dec(4, 5)}
FrameSWDInputs == {None, Num(0), Num(1), Num(4), Num(19), Num(1432)}

FrameOtherInputs ==
    { [l \in OtherLabels |-> v] : v \in {None, Num(1), Num(5)} }

FrameMaps ==
    { DictOf([ l \in Labels |->
                 CASE l = "IS K-8"   -> is[1]
                   [] l = "IS 9-12"  -> is[2]
                   [] l = "SWD K-8"  -> sw[1]
                   [] l = "SWD 9-12" -> sw[2]
                   [] OTHER          -> o[l] ]) :
        is \in FrameISInputs \X FrameISInputs, sw \in FrameSWDInputs \X FrameSWDInputs,
        o \in FrameOtherInputs }

OtherLineChoices ==
    { << >>,
      << Str(<<"Substitutes:">>) \o <<" ", "1">>,
         Str(<<"OSS", "of", "SWD", "K-8:">>) \o <<" ", "1">>,
         Str(<<"OSS", "9-12:">>) \o <<" ", "1">>,
         Str(<<"Expulsion", "K-8:">>) \o <<" ", "1">>,
         Str(<<"Expulsion", "of", "SWD", "9-12:">>) \o <<" ", "1">>,
         Str(<<"Emergency", "Removal:">>) \o <<" ", "1">>,
         Str(<<"MDM:">>) \o <<" ", "1">> >> }

FrameTexts ==
    { JoinLines(h \o i \o w \o o) :
        h \in HeaderChoices,
        i \in { << >>,
                << Str(<<"Number", "of", "IS", "serving", "grades", "K-8:">>) \o <<" ", "1">>,
                   Str(<<"Number", "of", "IS", "serving", "grades", "9-12:">>) \o <<" ", "5">> >> },
        w \in SWDLineChoices,
        o \in OtherLineChoices }

(***************************************************************************)
(* school_from_pdf: the school name, the two extraction strategies and the *)
(* School built from them.  A piece of code that may raise gives a record: *)
(* whether it raised, and the value it gave when it did not.               *)
(***************************************************************************)
Returns(v) == [raised |-> FALSE, value |-> v]
Raised == [raised |-> TRUE, value |-> None]

UNKNOWN_SCHOOL == "Unknown School"

\* The index of the block that holds the school name.
NAME_BLOCK == 18

\* first_line_text: the texts of the spans, one after the other.
RECURSIVE span_texts(_)
span_texts(spans) ==
    IF Len(spans) = 0 THEN << >> ELSE spans[1].text \o span_texts(Tail(spans))

\* str.strip(): the text without its leading and trailing white space.
strip(text) ==
    LET inked == { k \in 1..Len(text) : text[k] \notin {" ", "\n"} }
    IN  IF inked = {} THEN << >>
        ELSE SubSeq(text, CHOOSE k \in inked : \A m \in inked : k <= m,
                          CHOOSE k \in inked : \A m \in inked : k >= m)

\* The string of a text.
RECURSIVE Chars(_)
Chars(text) == IF Len(text) = 0 THEN "" ELSE text[1] \o Chars(Tail(text))

\* Faulty variant of read_school_name: the name is read from the block before.
read_school_name_block_17(layout) ==
    IF layout.raises THEN Raised
    ELSE
      LET page_dict == layout.dict
      IN  IF ~( /\ DOMAIN page_dict # {}
                /\ "blocks" \in DOMAIN page_dict
                /\ Len(page_dict.blocks) > NAME_BLOCK - 1 )
          THEN Returns(UNKNOWN_SCHOOL)
          ELSE
            LET target_block == page_dict.blocks[NAME_BLOCK]
            IN  IF ~("lines" \in DOMAIN target_block /\ Len(target_block.lines) > 0)
                THEN Returns(UNKNOWN_SCHOOL)
                ELSE
                  LET first_line == target_block.lines[1]
                  IN  IF "spans" \notin DOMAIN first_line THEN Raised
                      ELSE IF \E k \in 1..Len(first_line.spans) :
                                  "text" \notin DOMAIN first_line.spans[k]
                           THEN Raised
                      ELSE Returns(Chars(strip(span_texts(first_line.spans))))

\* The body of the try: a missing key raises KeyError, and so may
\* page.get_text("dict").  Without the name block the name stays as set before.
read_school_name(layout) ==
    IF layout.raises THEN Raised
    ELSE
      LET page_dict == layout.dict
      IN  IF ~( /\ DOMAIN page_dict # {}
                /\ "blocks" \in DOMAIN page_dict
                /\ Len(page_dict.blocks) > NAME_BLOCK )
          THEN Returns(UNKNOWN_SCHOOL)
          ELSE
            LET target_block == page_dict.blocks[NAME_BLOCK + 1]
            IN  IF ~("lines" \in DOMAIN target_block /\ Len(target_block.lines) > 0)
                THEN Returns(UNKNOWN_SCHOOL)
                ELSE
                  LET first_line == target_block.lines[1]
                  IN  IF "spans" \notin DOMAIN first_line THEN Raised
                      ELSE IF \E k \in 1..Len(first_line.spans) :
                                  "text" \notin DOMAIN first_line.spans[k]
                           THEN Raised
                      ELSE Returns(Chars(strip(span_texts(first_line.spans))))

\* Faulty variant of locate_name: the exception is not caught.
locate_name_uncaught(layout) == read_school_name(layout)

\* The try and its except: a raise leaves the name "Unknown School".
locate_name(layout) ==
    LET r == read_school_name(layout)
    IN  IF r.raised THEN Returns(UNKNOWN_SCHOOL) ELSE r

\* Faulty variant of is_both_of: the placeholder name counts as a roster name.
is_both_of_unknown(name) == name \in es_and_hs_schools \cup {UNKNOWN_SCHOOL}

is_both_of(name) == name \in es_and_hs_schools

(***************************************************************************)
(* The number-based strategy                                               *)
(***************************************************************************)
\* The count of leading numbers left out.
SKIPPED_NUMBERS == 37

\* re.findall(r"\d+", text) and int(): the maximal runs of digits, in order.
find_numbers(text) ==
    LET starts == SelectSeq([ k \in 1..Len(text) |-> k ],
                            LAMBDA k : /\ text[k] \in Digits
                                       /\ (k = 1 \/ text[k - 1] \notin Digits))
    IN  [ n \in 1..Len(starts) |->
            Num(IntParse(SubSeq(text, starts[n],
                                starts[n] + RunLen(text, starts[n], "int") - 1))) ]

\* numbers[37:]
refine(numbers) == SubSeq(numbers, SKIPPED_NUMBERS + 1, Len(numbers))

\* Faulty variant of fallback_field_list: the index is taken to count from 1.
fallback_field_list_from_one(refined) ==
    LET bound == SelectSeq(index_labels, LAMBDA m : m.index_value <= Len(refined))
    IN  [ k \in 1..Len(bound) |->
            [label |-> bound[k].label, value |-> refined[bound[k].index_value]] ]

\* One entry for each label whose index is below the count of numbers.
fallback_field_list(refined) ==
    LET bound == SelectSeq(index_labels, LAMBDA m : m.index_value < Len(refined))
    IN  [ k \in 1..Len(bound) |->
            [label |-> bound[k].label, value |-> refined[bound[k].index_value + 1]] ]

(***************************************************************************)
(* The OCR strategy                                                        *)
(***************************************************************************)
\* Faulty variant of extract_data_from_ocr: the exception is not caught.
extract_data_from_ocr_uncaught(image) ==
    IF image.raises THEN Raised
    ELSE Returns([none |-> FALSE,
                  map |-> apply_ocr_corrections(parse_ocr_text(image.text), image.text)])

\* The corrected map of the recognized text, or None when anything raised.
extract_data_from_ocr(image) ==
    IF image.raises THEN Returns([none |-> TRUE, map |-> NoData])
    ELSE Returns([none |-> FALSE,
                  map |-> apply_ocr_corrections(parse_ocr_text(image.text), image.text)])

\* Faulty variant of ocr_usable: an empty map counts as OCR output.
ocr_usable_when_empty(o) == ~o.none

\* ocr_data and any(v is not None for v in ocr_data.values())
ocr_usable(o) ==
    /\ ~o.none
    /\ DOMAIN o.map # {}
    /\ \E k \in DOMAIN o.map : o.map[k] # None

\* Faulty variant of ocr_field_list: entries for the labels of the map only.
ocr_field_list_of_map(map) ==
    LET held == SelectSeq(index_labels, LAMBDA m : m.label \in DOMAIN map)
    IN  [ k \in 1..Len(held) |-> [label |-> held[k].label, value |-> map[held[k].label]] ]
\* One entry for each label of index_labels, None for a label not in the map.
ocr_field_list(map) ==
    [ k \in 1..Len(index_labels) |->
        [label |-> index_labels[k].label, value |-> Get(map, index_labels[k].label)] ]

(***************************************************************************)
(* school_from_pdf.  The result tells what the call did ("School": a       *)
(* School was returned, "None": None was returned, "raise": an exception   *)
(* left the call) with the values it computed on the way.                  *)
(***************************************************************************)
Outcome(kind, s, name, o, refined) ==
    [kind |-> kind, school |-> s, school_name |-> name,
     ocr_result |-> o, refined_numbers |-> refined]

\* The second try: the School of the number-based strategy, None on a raise.
fallback_school(d, name, o) ==
    IF d.text.raises THEN Outcome("None", NoSchool, name, o, << >>)
    ELSE
      LET refined == refine(find_numbers(d.text.tokens))
      IN  Outcome("School",
                  [name |-> name, is_both |-> is_both_of(name),
                   data_list |-> fallback_field_list(refined)],
                  name, o, refined)

\* Faulty variant of ocr_school: a label the OCR map lacks is filled from the
\* numbers of the page text.
ocr_school_filled(d, name, o) ==
    LET refined == IF d.text.raises THEN << >> ELSE refine(find_numbers(d.text.tokens))
        filled == fallback_field_list(refined)
        from_numbers(label) ==
            LET hits == { k \in 1..Len(filled) : filled[k].label = label }
            IN  IF hits = {} THEN None ELSE filled[CHOOSE k \in hits : TRUE].value
    IN  Outcome("School",
                [name |-> name, is_both |-> is_both_of(name),
                 data_list |->
                    [ k \in 1..Len(index_labels) |->
                        [label |-> index_labels[k].label,
                         value |-> IF index_labels[k].label \in DOMAIN o.map
                                   THEN o.map[index_labels[k].label]
                                   ELSE from_numbers(index_labels[k].label)] ]],
                name, o, << >>)

\* The School of the OCR strategy.
ocr_school(d, name, o) ==
    Outcome("School",
            [name |-> name, is_both |-> is_both_of(name),
             data_list |-> ocr_field_list(o.map)],
            name, o, << >>)

NoOcrResult == [none |-> TRUE, map |-> NoData]

\* The one element of a set of one element.
Only(S) == CHOOSE x \in S : TRUE

\* The name and the OCR result are each computed once and then used.
school_from_pdf(d) ==
    IF ~d.opens THEN Outcome("None", NoSchool, "", NoOcrResult, << >>)
    ELSE
      Only({ IF name.raised THEN Outcome("raise", NoSchool, "", NoOcrResult, << >>)
             ELSE IF o.raised THEN Outcome("raise", NoSchool, name.value, NoOcrResult, << >>)
             ELSE IF ocr_usable(o.value)
                  THEN ocr_school(d, name.value, o.value)
                  ELSE fallback_school(d, name.value, o.value) :
               name \in {locate_name(d.layout)}, o \in {extract_data_from_ocr(d.image)} })

(***************************************************************************)
(* Documents.  A document opens or not; its page gives a structured layout *)
(* (page.get_text("dict")), an image for the OCR engine and a plain text   *)
(* (page.get_text()), each of which may raise instead.                     *)
(***************************************************************************)
Span(text) == [text |-> text, size |-> 12]
Line(spans) == [spans |-> spans, wmode |-> 0]
TextBlock(lines) == [type |-> 0, lines |-> lines]
ImageBlock == [type |-> 1]

\* A block of the template other than the name block.
HeadingBlock == TextBlock(<< Line(<< Span(<<"Monthly", " ", "Report">>) >>) >>)

\* What the block at the name index may hold: a name in one span or in several,
\* with white space around it, a second line, and the malformed shapes.
NameBlocks ==
    { TextBlock(<< Line(<< Span(<<"Ohio", " ", "Virtual", " ", "Academy">>) >>) >>),
      TextBlock(<< Line(<< Span(<<" ", "Ohio", " ", "Virtual">>),
                           Span(<<" ", "Academy", " ", "\n">>) >>),
                   Line(<< Span(<<"Monthly", " ", "Report">>) >>) >>),
      TextBlock(<< Line(<< Span(<<"Western", " ", "Toledo", " ", "Preparatory">>) >>) >>),
      TextBlock(<< Line(<< Span(<<"ohio", " ", "virtual", " ", "academy">>) >>) >>),
      TextBlock(<< Line(<< Span(<<"Unknown", " ", "School">>) >>) >>),
      TextBlock(<< Line(<< Span(<<" ">>) >>) >>),
      TextBlock(<< Line(<< >>) >>),
      TextBlock(<< >>),
      ImageBlock,
      TextBlock(<< [wmode |-> 0] >>),
      TextBlock(<< Line(<< Span(<<"Ohio", " ", "Virtual", " ", "Academy">>),
                           [size |-> 12] >>) >>) }

Blocks(n, name_block) ==
    [ k \in 1..n |-> IF k = NAME_BLOCK + 1 THEN name_block ELSE HeadingBlock ]

Layout(dict) == [raises |-> FALSE, dict |-> dict]

Layouts ==
    { [raises |-> TRUE, dict |-> << >>],
      Layout(<< >>),
      Layout([width |-> 612]) }
    \cup { Layout([width |-> 612, blocks |-> Blocks(n, HeadingBlock)]) :
             n \in {0, 1, NAME_BLOCK} }
    \cup { Layout([width |-> 612, blocks |-> Blocks(NAME_BLOCK + 1, b)]) : b \in NameBlocks }
    \cup { Layout([width |-> 612, blocks |-> Blocks(NAME_BLOCK + 2, b)]) :
             b \in { TextBlock(<< Line(<< Span(<<"Ohio", " ", "Virtual", " ", "Academy">>) >>) >>),
                     ImageBlock } }

\* Page images: rendering or recognition raises, or a text is recognized: no
\* text, a text without a label, the name of a school only, and report lines.
Image(text) == [raises |-> FALSE, text |-> text]

Images ==
    { [raises |-> TRUE, text |-> << >>],
      Image(<< >>),
      Image(<<"Monthly", " ", "Report">>),
      Image(Str(<<"Western", "Toledo", "Preparatory">>)),
      Image(JoinLines(<< Str(<<"Ohio", "Virtual", "Academy">>),
                         Str(<<"SWD", "in", "grades", "K-8:">>) \o <<" ", "1">>,
                         Str(<<"SWD", "in", "grades", "9-12:">>) \o <<"\n", "1", "2">> >>)),
      Image(JoinLines(<< Str(<<"Number", "of", "IS", "serving", "grades", "K-8:">>) \o <<" ", "1">>,
                         Str(<<"SWD", "in", "grades", "K-8:">>) \o <<" ", "0">>,
                         Str(<<"Emergency", "Removal:">>) \o <<" ", "1">> >>)) }

\* Plain texts.  The page prints `written`, a list of whole numbers below 100:
\* each after a word or a mark, a number below ten after a space as well.
MaxTail == 17

digit_tokens == <<"0", "1", "2", "3", "4", "5", "6", "7", "8", "9">>
mark_tokens == <<"Page", ":", "\n", ".", "of", "-">>

PlainText(written) ==
    [ k \in 1..(3 * Len(written)) |->
        LET e == ((k - 1) \div 3) + 1
            n == IntOf(written[e])
        IN  CASE (k - 1) % 3 = 0 -> mark_tokens[(e % Len(mark_tokens)) + 1]
              [] (k - 1) % 3 = 1 -> IF n < 10 THEN " " ELSE digit_tokens[(n \div 10) + 1]
              [] OTHER           -> digit_tokens[(n % 10) + 1] ]

\* The number printed at position e: the numbers of the template first, then
\* the values of the report in one of three fillings.
Printed(e, filling) ==
    IF e <= SKIPPED_NUMBERS THEN Num(e)
    ELSE CASE filling = 1 -> Num(((e - SKIPPED_NUMBERS) * 7) % 13)
           [] filling = 2 -> Num(0)
           [] OTHER       -> Num(10 + (e - SKIPPED_NUMBERS))

Written(count, filling) == [ e \in 1..count |-> Printed(e, filling) ]

PageText(written) == [raises |-> FALSE, tokens |-> PlainText(written), written |-> written]

PageTexts ==
    { [raises |-> TRUE, tokens |-> << >>, written |-> << >>] }
    \cup { PageText(Written(count, filling)) :
             count \in {0, SKIPPED_NUMBERS - 1}
                       \cup SKIPPED_NUMBERS..(SKIPPED_NUMBERS + MaxTail),
             filling \in 1..3 }

Document(opens, layout, image, text) ==
    [opens |-> opens, layout |-> layout, image |-> image, text |-> text]

\* A file that does not open, and the documents that do.
Unopenable ==
    Document(FALSE, [raises |-> TRUE, dict |-> << >>],
             [raises |-> TRUE, text |-> << >>],
             [raises |-> TRUE, tokens |-> << >>, written |-> << >>])

Documents ==
    { Unopenable }
    \cup { Document(TRUE, l, im, t) : l \in Layouts, im \in Images, t \in PageTexts }

(***************************************************************************)
(* The batch drivers: bulk_run (src/main.py) over the files of a directory *)
(* and process_files (src/streamlit_app.py) over uploaded files.  A file   *)
(* is named by its position in the list.                                   *)
(***************************************************************************)
\* The school names of the rows of the model in the order of Python's str.
row_names ==
    << "Ohio Virtual Academy", "Ohio Virtual Academy ES", "Ohio Virtual Academy HS",
       "Unknown School", "Unknown School ES", "Unknown School HS",
       "Western Toledo Preparatory", "Western Toledo Preparatory ES",
       "Western Toledo Preparatory HS" >>

name_rank(name) == CHOOSE k \in 1..Len(row_names) : row_names[k] = name

\* list.sort(key=lambda x: x.get("School", "")): a stable sort by name.
RECURSIVE sort_rows(_)
sort_rows(rs) ==
    IF Len(rs) <= 1 THEN rs
    ELSE LET sorted == sort_rows(SubSeq(rs, 1, Len(rs) - 1))
             last == rs[Len(rs)]
             before == SelectSeq(sorted,
                          LAMBDA r : name_rank(r.School) <= name_rank(last.School))
             after == SelectSeq(sorted,
                          LAMBDA r : name_rank(r.School) > name_rank(last.School))
         IN  before \o <<last>> \o after

Tally(all, successful, failed) ==
    [all_rows |-> all, successful_pdfs |-> successful, failed_pdfs |-> failed]

Failure(k, raised) == [pdf |-> k, raised |-> raised]

\* Faulty variant of handle_pdf: a failure discards the rows collected so far.
handle_pdf_resets(file, k, t) ==
    Only({ CASE r.kind = "School" ->
                Tally(t.all_rows \o build_rows_for_school(r.school),
                      t.successful_pdfs + 1, t.failed_pdfs)
           [] r.kind = "None" ->
                Tally(<< >>, t.successful_pdfs, Append(t.failed_pdfs, Failure(k, FALSE)))
           [] OTHER ->
                Tally(<< >>, t.successful_pdfs, Append(t.failed_pdfs, Failure(k, TRUE))) :
             r \in {school_from_pdf(file)} })

\* The body of the try of both drivers, with its except: the k-th file is
\* parsed; a School adds its rows and counts as successful, None and an
\* exception are recorded as failures.
handle_pdf(file, k, t) ==
    Only({ CASE r.kind = "School" ->
                Tally(t.all_rows \o build_rows_for_school(r.school),
                      t.successful_pdfs + 1, t.failed_pdfs)
           [] r.kind = "None" ->
                Tally(t.all_rows, t.successful_pdfs, Append(t.failed_pdfs, Failure(k, FALSE)))
           [] OTHER ->
                Tally(t.all_rows, t.successful_pdfs, Append(t.failed_pdfs, Failure(k, TRUE))) :
             r \in {school_from_pdf(file)} })

\* process_files first writes the upload to a temporary file, which may raise.
handle_upload(upload, k, t) ==
    IF ~upload.saved
    THEN Tally(t.all_rows, t.successful_pdfs, Append(t.failed_pdfs, Failure(k, TRUE)))
    ELSE handle_pdf(upload.file, k, t)

(***************************************************************************)
(* The files of a batch                                                    *)
(***************************************************************************)
MaxDocs == 3

NamedLayout(words) ==
    Layout([width |-> 612,
            blocks |-> Blocks(NAME_BLOCK + 1, TextBlock(<< Line(<< Span(words) >>) >>))])

\* A file that does not open; a roster school read by OCR; a school read from
\* the numbers of the page after the OCR step raised; a page from which
\* neither strategy reads a field; a page whose text cannot be read.
BatchDocuments ==
    { Unopenable,
      Document(TRUE, NamedLayout(<<"Ohio", " ", "Virtual", " ", "Academy">>),
               Image(JoinLines(<< Str(<<"Ohio", "Virtual", "Academy">>),
                                  Str(<<"SWD", "in", "grades", "K-8:">>) \o <<" ", "1">>,
                                  Str(<<"SWD", "in", "grades", "9-12:">>) \o <<"\n", "1", "2">> >>)),
               PageText(Written(SKIPPED_NUMBERS + 16, 1))),
      Document(TRUE, NamedLayout(<<"Western", " ", "Toledo", " ", "Preparatory">>),
               [raises |-> TRUE, text |-> << >>],
               PageText(Written(SKIPPED_NUMBERS + 16, 1))),
      Document(TRUE, Layout(<< >>), Image(<< >>), PageText(Written(0, 1))),
      Document(TRUE, NamedLayout(<<"Ohio", " ", "Virtual", " ", "Academy">>),
               Image(<<"Monthly", " ", "Report">>),
               [raises |-> TRUE, tokens |-> << >>, written |-> << >>]) }

Upload(file, saved) == [file |-> file, saved |-> saved]

\* The files of a directory, and uploads: one of them cannot be written to
\* the temporary directory.
Files(runner) ==
    { Upload(d, TRUE) : d \in BatchDocuments }
    \cup (IF runner = "process_files"
          THEN { Upload(d, FALSE) :
                   d \in { x \in BatchDocuments : x.opens /\ ~x.image.raises
                                                   /\ ~x.text.raises /\ x.text.written # << >> } }
          ELSE {})

RECURSIVE FileLists(_, _)
FileLists(runner, n) ==
    IF n = 0 THEN { << >> }
    ELSE LET shorter == FileLists(runner, n - 1)
         IN  shorter \cup
             { Append(l, f) : l \in { x \in shorter : Len(x) = n - 1 }, f \in Files(runner) }

NoDocument == Unopenable

NoPipeline ==
    /\ doc = NoDocument
    /\ school_name = ""
    /\ ocr_result = NoOcrResult
    /\ refined_numbers = << >>
    /\ returned = ""

NoBatch ==
    /\ pdfs = << >>
    /\ processed = 0
    /\ all_rows = << >>
    /\ successful_pdfs = 0
    /\ failed_pdfs = << >>
    /\ sheet = << >>
    /\ driver = ""

NoObjects ==
    /\ heap = << >>
    /\ given = 0
    /\ result = << >>

NoVerbose ==
    /\ verbose = FALSE
    /\ log = << >>
    /\ first_run = << >>

InitDerive ==
    /\ pc = "record"
    /\ school \in Schools(SchoolNames)
    /\ rows = << >>
    /\ ocr_text = << >>
    /\ data = NoData
    /\ ocr_data = None
    /\ NoPipeline
    /\ NoBatch
    /\ NoObjects
    /\ NoVerbose

BuildRows ==
    /\ pc = "record"
    /\ rows' = build_rows_for_school(school)
    /\ pc' = "rows"
    /\ UNCHANGED <<school, ocr_text, data, ocr_data, pipeline_vars, batch_vars,
                   object_vars, verbose_vars>>

NextDerive == BuildRows

SpecDerive == InitDerive /\ [][NextDerive]_vars

(***************************************************************************)
(* The corrections applied to a field map and a text                       *)
(***************************************************************************)
InitCorrect ==
    /\ pc = "entry"
    /\ school = NoSchool
    /\ rows = << >>
    /\ ocr_text \in CorrectionTexts
    /\ data \in CorrectionMaps
    /\ ocr_data = None
    /\ NoPipeline
    /\ NoBatch
    /\ NoObjects
    /\ NoVerbose

ApplyCorrections ==
    /\ pc = "entry"
    /\ ocr_data' = apply_ocr_corrections(data, ocr_text)
    /\ pc' = "corrected"
    /\ UNCHANGED <<school, rows, ocr_text, data, pipeline_vars, batch_vars,
                   object_vars, verbose_vars>>

NextCorrect == ApplyCorrections

SpecCorrect == InitCorrect /\ [][NextCorrect]_vars

(***************************************************************************)
(* The corrections applied to maps with values no rule looks for           *)
(***************************************************************************)
InitFrame ==
    /\ pc = "entry"
    /\ school = NoSchool
    /\ rows = << >>
    /\ ocr_text \in FrameTexts
    /\ data \in FrameMaps
    /\ ocr_data = None
    /\ NoPipeline
    /\ NoBatch
    /\ NoObjects
    /\ NoVerbose

SpecFrame == InitFrame /\ [][NextCorrect]_vars

(***************************************************************************)
(* extract_data_from_ocr on a page image                                   *)
(***************************************************************************)
InitOcr ==
    /\ pc = "image"
    /\ school = NoSchool
    /\ rows = << >>
    /\ ocr_text = << >>
    /\ data = NoData
    /\ ocr_data = None
    /\ NoPipeline
    /\ NoBatch
    /\ NoObjects
    /\ NoVerbose

\* The text is recognized, parsed and corrected.
ExtractOcr ==
    /\ pc = "image"
    /\ \E text \in Texts :
        LET parsed == parse_ocr_text(text)
        IN  /\ ocr_text' = text
            /\ data' = parsed
            /\ ocr_data' = apply_ocr_corrections(parsed, text)
    /\ pc' = "extracted"
    /\ UNCHANGED <<school, rows, pipeline_vars, batch_vars,
                   object_vars, verbose_vars>>

\* Rendering or recognition raises: the exception is caught and None returned.
OcrRaises ==
    /\ pc = "image"
    /\ ocr_data' = None
    /\ pc' = "ocr_failed"
    /\ UNCHANGED <<school, rows, ocr_text, data, pipeline_vars, batch_vars,
                   object_vars, verbose_vars>>

NextOcr == ExtractOcr \/ OcrRaises

SpecOcr == InitOcr /\ [][NextOcr]_vars

(***************************************************************************)
(* school_from_pdf on a document                                           *)
(***************************************************************************)
InitPipeline ==
    /\ pc = "pdf"
    /\ doc \in Documents
    /\ school = NoSchool
    /\ rows = << >>
    /\ ocr_text = << >>
    /\ data = NoData
    /\ ocr_data = None
    /\ school_name = ""
    /\ ocr_result = NoOcrResult
    /\ refined_numbers = << >>
    /\ returned = ""
    /\ NoBatch
    /\ NoObjects
    /\ NoVerbose

SchoolFromPdf ==
    /\ pc = "pdf"
    /\ \E r \in {school_from_pdf(doc)} :
           /\ school' = r.school
           /\ school_name' = r.school_name
           /\ ocr_result' = r.ocr_result
           /\ refined_numbers' = r.refined_numbers
           /\ returned' = r.kind
    /\ pc' = "returned"
    /\ UNCHANGED <<doc, rows, ocr_text, data, ocr_data, batch_vars, object_vars, verbose_vars>>

NextPipeline == SchoolFromPdf

SpecPipeline == InitPipeline /\ [][NextPipeline]_vars

(***************************************************************************)
(* A batch run                                                             *)
(***************************************************************************)
InitBatch ==
    /\ pc = "batch"
    /\ driver \in {"bulk_run", "process_files"}
    /\ pdfs \in FileLists(driver, MaxDocs)
    /\ processed = 0
    /\ all_rows = << >>
    /\ successful_pdfs = 0
    /\ failed_pdfs = << >>
    /\ sheet = << >>
    /\ school = NoSchool
    /\ rows = << >>
    /\ ocr_text = << >>
    /\ data = NoData
    /\ ocr_data = None
    /\ NoPipeline
    /\ NoObjects
    /\ NoVerbose

frame_of_batch ==
    <<school, rows, ocr_text, data, ocr_data, pipeline_vars, pdfs, driver,
      object_vars, verbose_vars>>

\* bulk_run: no PDF in the directory.
BulkRunEmpty ==
    /\ pc = "batch" /\ driver = "bulk_run"
    /\ pdfs = << >>
    /\ pc' = "done"
    /\ UNCHANGED <<processed, all_rows, successful_pdfs, failed_pdfs, sheet, frame_of_batch>>

\* bulk_run: one turn of the loop.
BulkRunStep ==
    /\ pc = "batch" /\ driver = "bulk_run"
    /\ processed < Len(pdfs)
    /\ \E t \in {handle_pdf(pdfs[processed + 1].file, processed + 1,
                            Tally(all_rows, successful_pdfs, failed_pdfs))} :
           /\ all_rows' = t.all_rows
           /\ successful_pdfs' = t.successful_pdfs
           /\ failed_pdfs' = t.failed_pdfs
    /\ processed' = processed + 1
    /\ UNCHANGED <<pc, sheet, frame_of_batch>>

\* bulk_run after the loop: the rows are sorted by school and written.
BulkRunWrite ==
    /\ pc = "batch" /\ driver = "bulk_run"
    /\ pdfs # << >>
    /\ processed = Len(pdfs)
    /\ all_rows' = sort_rows(all_rows)
    /\ sheet' = sort_rows(all_rows)
    /\ pc' = "done"
    /\ UNCHANGED <<processed, successful_pdfs, failed_pdfs, frame_of_batch>>

\* process_files: no upload.
ProcessFilesEmpty ==
    /\ pc = "batch" /\ driver = "process_files"
    /\ pdfs = << >>
    /\ pc' = "done"
    /\ UNCHANGED <<processed, all_rows, successful_pdfs, failed_pdfs, sheet, frame_of_batch>>

\* process_files: one turn of the loop.
ProcessFilesStep ==
    /\ pc = "batch" /\ driver = "process_files"
    /\ processed < Len(pdfs)
    /\ \E t \in {handle_upload(pdfs[processed + 1], processed + 1,
                               Tally(all_rows, successful_pdfs, failed_pdfs))} :
           /\ all_rows' = t.all_rows
           /\ successful_pdfs' = t.successful_pdfs
           /\ failed_pdfs' = t.failed_pdfs
    /\ processed' = processed + 1
    /\ UNCHANGED <<pc, sheet, frame_of_batch>>

\* process_files after the loop: the rows are kept for display and download.
ProcessFilesStore ==
    /\ pc = "batch" /\ driver = "process_files"
    /\ pdfs # << >>
    /\ processed = Len(pdfs)
    /\ sheet' = all_rows
    /\ pc' = "done"
    /\ UNCHANGED <<processed, all_rows, successful_pdfs, failed_pdfs, frame_of_batch>>

NextBatch ==
    \/ BulkRunEmpty
    \/ BulkRunStep
    \/ BulkRunWrite
    \/ ProcessFilesEmpty
    \/ ProcessFilesStep
    \/ ProcessFilesStore

SpecBatch == InitBatch /\ [][NextBatch]_vars

(***************************************************************************)
(* Objects.  A dict, a list and a School are objects: the heap holds the   *)
(* contents of each object that exists, and an object is known by its      *)
(* place in the heap.  dict.copy() makes a new object; an assignment       *)
(* d[key] = value changes the contents of the object d refers to.          *)
(***************************************************************************)
\* Faulty variant of copy: no new object, the same one is handed back.
copy_is_alias(h, ref) == [heap |-> h, ref |-> ref]

\* data.copy(): a new object with the contents of the old one.
copy(h, ref) == [heap |-> Append(h, h[ref]), ref |-> Len(h) + 1]

\* corrected_data[field] = ...: the assignments of a rule leave `contents` in
\* the object c refers to.
assign(c, contents) == [heap |-> [c.heap EXCEPT ![c.ref] = contents], ref |-> c.ref]

\* Each rule called on the object ref: it copies the object, assigns to the
\* copy and returns the copy.
_apply_double_digit_corrections_on(h, ref, text) ==
    Only({ assign(c, _apply_double_digit_corrections(c.heap[c.ref], text)) :
             c \in {copy(h, ref)} })

_apply_large_number_corrections_on(h, ref, text) ==
    Only({ assign(c, _apply_large_number_corrections(c.heap[c.ref], text)) :
             c \in {copy(h, ref)} })

_apply_missing_data_corrections_on(h, ref, text) ==
    Only({ assign(c, _apply_missing_data_corrections(c.heap[c.ref], text)) :
             c \in {copy(h, ref)} })

_apply_context_based_corrections_on(h, ref, text) ==
    Only({ assign(c, _apply_context_based_corrections(c.heap[c.ref], text)) :
             c \in {copy(h, ref)} })

\* apply_ocr_corrections called on the object ref: a copy, then the four
\* rules, each on the object the one before returned.
apply_ocr_corrections_on(h, ref, text) ==
    Only({ c4 :
        c4 \in UNION { {_apply_context_based_corrections_on(c3.heap, c3.ref, text)} :
        c3 \in UNION { {_apply_missing_data_corrections_on(c2.heap, c2.ref, text)} :
        c2 \in UNION { {_apply_large_number_corrections_on(c1.heap, c1.ref, text)} :
        c1 \in UNION { {_apply_double_digit_corrections_on(c0.heap, c0.ref, text)} :
        c0 \in {copy(h, ref)} } } } } })

\* Faulty variant of build_rows_for_school_on: the collapsed values are
\* written back into the data_list of the School.
build_rows_for_school_on_collapsing(h, ref) ==
    LET made == build_rows_for_school(h[ref])
        blanked == [ k \in 1..Len(h[ref].data_list) |->
                       [label |-> h[ref].data_list[k].label,
                        value |-> _blank_if_zero(h[ref].data_list[k].value)] ]
    IN  [heap |-> [h EXCEPT ![ref] = [h[ref] EXCEPT !.data_list = blanked]] \o made,
         rows |-> [ k \in 1..Len(made) |-> Len(h) + k ]]

\* build_rows_for_school called on the School object ref: the School is read
\* only, and each row is a new dict.
build_rows_for_school_on(h, ref) ==
    LET made == build_rows_for_school(h[ref])
    IN  [heap |-> h \o made, rows |-> [ k \in 1..Len(made) |-> Len(h) + k ]]

\* The Schools and the maps the calls are given.
ObjectSchools ==
    { s \in Schools(SchoolNames) :
        _get(s, "Sub") = Num(0) /\ _get(s, "ER") = Num(0) /\ _get(s, "MDM") = Num(0) }

ObjectMaps ==
    { m \in CorrectionMaps : DOMAIN m \subseteq {"IS K-8", "IS 9-12", "SWD K-8", "SWD 9-12"} }

InitObjects ==
    /\ \/ /\ pc = "record"
          /\ school \in ObjectSchools
          /\ heap = << school >>
          /\ data = NoData
          /\ ocr_text = << >>
       \/ /\ pc = "entry"
          /\ data \in ObjectMaps
          /\ ocr_text \in CorrectionTexts
          /\ heap = << data >>
          /\ school = NoSchool
    /\ given = 1
    /\ result = << >>
    /\ rows = << >>
    /\ ocr_data = None
    /\ NoPipeline
    /\ NoBatch
    /\ NoVerbose

\* build_rows_for_school(school): rows holds what the returned rows hold.
CallBuildRows ==
    /\ pc = "record"
    /\ \E r \in {build_rows_for_school_on(heap, given)} :
           /\ heap' = r.heap
           /\ result' = r.rows
           /\ rows' = [ k \in 1..Len(r.rows) |-> r.heap[r.rows[k]] ]
    /\ pc' = "rows"
    /\ UNCHANGED <<school, ocr_text, data, ocr_data, given, pipeline_vars, batch_vars,
                   verbose_vars>>

\* A second call on the same School object.
CallBuildRowsAgain ==
    /\ pc = "rows"
    /\ \E r \in {build_rows_for_school_on(heap, given)} :
           /\ heap' = r.heap
           /\ result' = r.rows
    /\ pc' = "rows again"
    /\ UNCHANGED <<school, rows, ocr_text, data, ocr_data, given, pipeline_vars, batch_vars,
                   verbose_vars>>

\* apply_ocr_corrections(data, ocr_text): ocr_data holds what the returned
\* map holds.
CallCorrections ==
    /\ pc = "entry"
    /\ \E r \in {apply_ocr_corrections_on(heap, given, ocr_text)} :
           /\ heap' = r.heap
           /\ result' = << r.ref >>
           /\ ocr_data' = r.heap[r.ref]
    /\ pc' = "corrected"
    /\ UNCHANGED <<school, rows, ocr_text, data, given, pipeline_vars, batch_vars,
                   verbose_vars>>

NextObjects == CallBuildRows \/ CallBuildRowsAgain \/ CallCorrections

SpecObjects == InitObjects /\ [][NextObjects]_vars

(***************************************************************************)
(* VERBOSE.  The global is read by `if VERBOSE: print(...)` only: in the   *)
(* four rules beside each assignment, and in school_from_pdf beside the    *)
(* choice of the strategy.  The lines printed under it are the log.        *)
(***************************************************************************)
\* The "[OCR CORRECTION]" lines of one rule: one line for each field, in the
\* order of the rule, that the rule assigned (an assignment always changes
\* the value or adds the key).
correction_lines_of(rule, before, after, fields) ==
    LET assigned == SelectSeq(fields, LAMBDA f :
                        f \in DOMAIN after /\ (f \notin DOMAIN before \/ before[f] # after[f]))
    IN  [ k \in 1..Len(assigned) |->
            [line |-> "[OCR CORRECTION]", rule |-> rule, field |-> assigned[k],
             value |-> after[assigned[k]]] ]

double_digit_order ==
    << "IS K-8", "IS 9-12", "SWD K-8", "SWD 9-12", "Sub", "OSS K-8", "OSS 9-12",
       "EX K-8", "EX 9-12", "ER", "MDM" >>

\* The lines apply_ocr_corrections prints under VERBOSE: those of each rule,
\* on the map the rule before it returned (d1 to d4).
correction_lines(d, text) ==
    IF ~verbose THEN << >>
    ELSE
      Only({ Only({ Only({ Only({
          correction_lines_of("double-digit context analysis", d, d1, double_digit_order)
          \o correction_lines_of("known large number", d1, d2, << "SWD K-8", "SWD 9-12" >>)
          \o correction_lines_of("known missing data", d2, d3, << "SWD K-8" >>)
          \o correction_lines_of("misreading", d3, d4, << "IS K-8", "IS 9-12" >>) :
        d4 \in {_apply_context_based_corrections(d3, text)} }) :
        d3 \in {_apply_missing_data_corrections(d2, text)} }) :
        d2 \in {_apply_large_number_corrections(d1, text)} }) :
        d1 \in {_apply_double_digit_corrections(d, text)} })

\* The lines school_from_pdf prints under VERBOSE, those of the corrections
\* made inside extract_data_from_ocr included.
school_from_pdf_lines(d) ==
    IF ~verbose \/ ~d.opens THEN << >>
    ELSE
      Only({ (IF d.image.raises THEN << >> ELSE correction_lines(parsed, d.image.text))
             \o (IF ocr_usable(o.value)
                 THEN << [line |-> "[OCR] Extracted data"] >>
                 ELSE << [line |-> "[FALLBACK] Using number-based parsing"] >>
                      \o (IF d.text.raises THEN << >>
                          ELSE << [line |-> "[FALLBACK] Found numbers",
                                   count |-> Len(refine(find_numbers(d.text.tokens)))] >>)) :
               parsed \in {IF d.image.raises THEN NoData ELSE parse_ocr_text(d.image.text)},
               o \in {extract_data_from_ocr(d.image)} })

\* One run under the present value of VERBOSE: school_from_pdf on a document
\* with the rows and the classification its driver derives, and
\* apply_ocr_corrections on a map and a text.
one_run(d, m, text) ==
    [outcome |-> school_from_pdf(d),
     tally |-> handle_pdf(d, 1, Tally(<< >>, 0, << >>)),
     corrected |-> apply_ocr_corrections(m, text),
     log |-> school_from_pdf_lines(d) \o correction_lines(m, text)]

\* The documents of the two runs: a name on the roster, one that is not, a
\* layout that cannot be read; an image on which the rules fire or not, one
\* that gives no field, one that raises; a page text with numbers, without,
\* or that raises.
VerboseDocuments ==
    { Unopenable }
    \cup { Document(TRUE, l, im, t) :
             l \in { NamedLayout(<<"Ohio", " ", "Virtual", " ", "Academy">>),
                     NamedLayout(<<"Western", " ", "Toledo", " ", "Preparatory">>),
                     [raises |-> TRUE, dict |-> << >>] },
             im \in { [raises |-> TRUE, text |-> << >>] }
                    \cup { Image(text) : text \in CorrectionTexts },
             t \in { [raises |-> TRUE, tokens |-> << >>, written |-> << >>],
                     PageText(Written(0, 1)),
                     PageText(Written(SKIPPED_NUMBERS + 16, 1)) } }

InitVerbose ==
    /\ pc = "first"
    /\ verbose \in BOOLEAN
    /\ \/ /\ doc \in VerboseDocuments
          /\ data = NoData
          /\ ocr_text = << >>
       \/ /\ doc = NoDocument
          /\ data \in ObjectMaps
          /\ ocr_text \in CorrectionTexts
    /\ log = << >>
    /\ first_run = << >>
    /\ school = NoSchool
    /\ rows = << >>
    /\ ocr_data = None
    /\ school_name = ""
    /\ ocr_result = NoOcrResult
    /\ refined_numbers = << >>
    /\ returned = ""
    /\ NoBatch
    /\ NoObjects

\* The first run.
RunFirst ==
    /\ pc = "first"
    /\ \E r \in {one_run(doc, data, ocr_text)} : first_run' = r
    /\ pc' = "flag"
    /\ UNCHANGED <<school, rows, ocr_text, data, ocr_data, pipeline_vars, batch_vars,
                   object_vars, verbose, log>>

\* The program is started again with the other value of the flag.
FlipVerbose ==
    /\ pc = "flag"
    /\ verbose' = ~verbose
    /\ pc' = "second"
    /\ UNCHANGED <<school, rows, ocr_text, data, ocr_data, pipeline_vars, batch_vars,
                   object_vars, log, first_run>>

\* The second run, on the same inputs.
RunSecond ==
    /\ pc = "second"
    /\ \E r \in {one_run(doc, data, ocr_text)} :
           /\ school' = r.outcome.school
           /\ school_name' = r.outcome.school_name
           /\ ocr_result' = r.outcome.ocr_result
           /\ refined_numbers' = r.outcome.refined_numbers
           /\ returned' = r.outcome.kind
           /\ all_rows' = r.tally.all_rows
           /\ successful_pdfs' = r.tally.successful_pdfs
           /\ failed_pdfs' = r.tally.failed_pdfs
           /\ ocr_data' = r.corrected
           /\ log' = r.log
    /\ pc' = "compared"
    /\ UNCHANGED <<rows, ocr_text, data, doc, pdfs, processed, sheet, driver,
                   object_vars, verbose, first_run>>

NextVerbose == RunFirst \/ FlipVerbose \/ RunSecond

SpecVerbose == InitVerbose /\ [][NextVerbose]_vars

(***************************************************************************)
(* Properties of the row derivation (SpecDerive)                           *)
(***************************************************************************)
\* The record's value for a label, read off data_list (None: no entry or null).
Field(label) ==
    LET hits == { i \in DOMAIN school.data_list : school.data_list[i].label = label }
    IN  IF hits = {} THEN None ELSE school.data_list[CHOOSE i \in hits : TRUE].value

Collapsed(v) == IF v = Num(0) THEN None ELSE v
Positive(v) == v # None /\ v > 0
Present(v) == v # None

Derived == pc = "rows"

\* isES, isHS and shouldSplit as the decision table states them.
TableIsES ==
    \/ Positive(Collapsed(Field("SWD K-8")))
    \/ Positive(Field("IS K-8"))
    \/ Present(Collapsed(Field("OSS K-8")))
    \/ Present(Collapsed(Field("EX K-8")))
TableIsHS ==
    \/ Positive(Collapsed(Field("SWD 9-12")))
    \/ Positive(Field("IS 9-12"))
    \/ Present(Collapsed(Field("OSS 9-12")))
    \/ Present(Collapsed(Field("EX 9-12")))
TableShouldSplit ==
    \/ school.is_both
    \/ (Positive(Collapsed(Field("SWD K-8"))) /\ Positive(Collapsed(Field("SWD 9-12"))))

\* The row the table describes for a grade band, and the placeholder row.
BandRow(name, swd, is, oss, ex) ==
    [School |-> name,
     Students |-> Collapsed(Field(swd)), Teachers |-> Field(is),
     Sub |-> Collapsed(Field("Sub")),
     OSS |-> Collapsed(Field(oss)), EX |-> Collapsed(Field(ex)),
     ER |-> Collapsed(Field("ER")), MDM |-> Collapsed(Field("MDM"))]
K8Row(name) == BandRow(name, "SWD K-8", "IS K-8", "OSS K-8", "EX K-8")
HSRow(name) == BandRow(name, "SWD 9-12", "IS 9-12", "OSS 9-12", "EX 9-12")
PlaceholderRow ==
    [School |-> school.name,
     Students |-> None, Teachers |-> None, Sub |-> Collapsed(Field("Sub")),
     OSS |-> None, EX |-> None,
     ER |-> Collapsed(Field("ER")), MDM |-> Collapsed(Field("MDM"))]

\* C1: a record with isBoth = true gives exactly 2 rows, whatever its fields.
C1_BothGivesTwoRows == (Derived /\ school.is_both) => Len(rows) = 2

\* C1 witness: a roster school with every field absent or zero got 2 rows.
C1_Witness ==
    /\ Derived /\ school.is_both /\ Len(rows) = 2
    /\ \A l \in Labels : Field(l) \in {None, Num(0)}
    /\ \E l \in Labels : Field(l) = Num(0)

\* C2: every record gives exactly 1 or exactly 2 rows.
C2_OneOrTwoRows == Derived => Len(rows) \in {1, 2}

\* C2 witness: a record without any field got 1 row, not none.
C2_Witness ==
    /\ Derived /\ ~school.is_both /\ Len(rows) = 1
    /\ \A l \in Labels : Field(l) = None

\* C3 as stated: without grade-band data (neither isES nor isHS), whatever
\* isBoth, the result is exactly the one placeholder row.
C3_PlaceholderWhateverIsBoth ==
    (Derived /\ ~TableIsES /\ ~TableIsHS) => rows = << PlaceholderRow >>

\* C3 amended: without grade-band data and with isBoth = false, the result is
\* exactly the one placeholder row: School = name, Students, Teachers, OSS and
\* EX absent, and the collapsed Sub, ER and MDM.
C3_PlaceholderWhenNotBoth ==
    (Derived /\ ~school.is_both /\ ~TableIsES /\ ~TableIsHS)
        => rows = << PlaceholderRow >>

\* C3 witness: a school off the roster whose only data are a zero teacher count
\* and a positive Sub got the placeholder row.
C3_Witness ==
    /\ Derived /\ ~school.is_both /\ ~TableIsES /\ ~TableIsHS
    /\ Field("IS K-8") = Num(0) /\ Positive(Field("Sub"))
    /\ rows = << PlaceholderRow >>

\* C4: no row holds 0 in Students, Sub, OSS, EX, ER or MDM.
C4_NoZeroOutsideTeachers ==
    Derived =>
        \A i \in DOMAIN rows :
            \A c \in {"Students", "Sub", "OSS", "EX", "ER", "MDM"} :
                rows[i][c] # Num(0)

\* C4 witness: raw zeros in SWD K-8, OSS K-8 and Sub were presented as absent
\* in a row built from the K-8 values.
C4_Witness ==
    /\ Derived /\ Len(rows) = 1 /\ TableIsES
    /\ Field("SWD K-8") = Num(0) /\ Field("OSS K-8") = Num(0) /\ Field("Sub") = Num(0)
    /\ rows[1].Students = None /\ rows[1].OSS = None /\ rows[1].Sub = None

\* C5: a row built from a grade band's values has the record's IS value of that
\* band as Teachers, a 0 included.
C5_TeachersNotCollapsed ==
    Derived =>
        /\ Len(rows) = 2 =>
              /\ rows[1].Teachers = Field("IS K-8")
              /\ rows[2].Teachers = Field("IS 9-12")
        /\ (Len(rows) = 1 /\ TableIsES) => rows[1].Teachers = Field("IS K-8")
        /\ (Len(rows) = 1 /\ TableIsHS /\ ~TableIsES) =>
              rows[1].Teachers = Field("IS 9-12")

\* C5 witness: a single K-8 row shows the teacher count 0.
C5_Witness ==
    /\ Derived /\ Len(rows) = 1 /\ TableIsES
    /\ Field("IS K-8") = Num(0) /\ rows[1].Teachers = Num(0)

\* C6: two rows exactly when isBoth or both student counts are positive; then
\* the first is name + " ES" with the K-8 values and the second name + " HS"
\* with the 9-12 values, both with the same Sub, ER and MDM.
C6_SplitRows ==
    Derived =>
        /\ (Len(rows) = 2) <=> TableShouldSplit
        /\ TableShouldSplit =>
              rows = << K8Row(school.name \o " ES"), HSRow(school.name \o " HS") >>

\* C6 witness: a school off the roster with both student counts positive got
\* the ES and the HS row.
C6_Witness ==
    /\ Derived /\ ~school.is_both /\ Len(rows) = 2
    /\ Positive(Field("SWD K-8")) /\ Positive(Field("SWD 9-12"))
    /\ rows[1].School = school.name \o " ES" /\ rows[2].School = school.name \o " HS"

\* C7: no split and exactly one grade band present: one row named name with
\* that band's values.
C7_SingleBandRow ==
    (Derived /\ ~TableShouldSplit) =>
        /\ (TableIsES /\ ~TableIsHS) => rows = << K8Row(school.name) >>
        /\ (TableIsHS /\ ~TableIsES) => rows = << HSRow(school.name) >>

\* C7 witness: a positive 9-12 teacher count alone made the 9-12 row.
C7_Witness ==
    /\ Derived /\ ~TableShouldSplit /\ TableIsHS /\ ~TableIsES
    /\ Positive(Field("IS 9-12")) /\ ~Positive(Field("SWD 9-12"))
    /\ Field("OSS 9-12") \in {None, Num(0)} /\ Field("EX 9-12") \in {None, Num(0)}
    /\ rows = << HSRow(school.name) >>

\* C8: isBoth = false, K-8 students positive, 9-12 students zero or absent:
\* one row with the K-8 Students, Teachers, OSS and EX, whatever the other
\* 9-12 fields hold.
C8_K8OnlyRow ==
    (/\ Derived /\ ~school.is_both
     /\ Positive(Field("SWD K-8"))
     /\ Field("SWD 9-12") \in {None, Num(0)})
        => /\ Len(rows) = 1
           /\ rows[1].Students = Field("SWD K-8")
           /\ rows[1].Teachers = Field("IS K-8")
           /\ rows[1].OSS = Collapsed(Field("OSS K-8"))
           /\ rows[1].EX = Collapsed(Field("EX K-8"))

\* C8 witness: the 9-12 teacher, suspension and expulsion counts were positive
\* and the row still holds the K-8 values.
C8_Witness ==
    /\ Derived /\ ~school.is_both /\ Len(rows) = 1
    /\ Positive(Field("SWD K-8")) /\ Field("SWD 9-12") = Num(0)
    /\ Positive(Field("IS 9-12")) /\ Positive(Field("OSS 9-12")) /\ Positive(Field("EX 9-12"))
    /\ Field("IS K-8") = None
    /\ rows[1].Teachers = None /\ rows[1].Students = Field("SWD K-8")

\* C21: both grade bands present, isBoth = false and not both student counts
\* positive: one row named name holding the K-8 Students, Teachers, OSS and EX
\* (and the shared Sub, ER and MDM), so no 9-12 value is in it, even when the
\* K-8 student count is absent and the 9-12 one is positive.
C21_TieGoesToK8 ==
    (Derived /\ TableIsES /\ TableIsHS /\ ~TableShouldSplit)
        => /\ ~school.is_both
           /\ rows = << K8Row(school.name) >>
           /\ rows[1].Students = Collapsed(Field("SWD K-8"))
           /\ rows[1].Teachers = Field("IS K-8")
           /\ rows[1].OSS = Collapsed(Field("OSS K-8"))
           /\ rows[1].EX = Collapsed(Field("EX K-8"))

\* C21 witness: no K-8 student count, a positive 9-12 one, and every 9-12
\* value different from its K-8 counterpart: the row has the K-8 ones.
C21_Witness ==
    /\ Derived /\ TableIsES /\ TableIsHS /\ ~TableShouldSplit
    /\ Field("SWD K-8") = None /\ Positive(Field("SWD 9-12"))
    /\ Field("IS K-8") = Dec(0, 5) /\ Field("IS 9-12") = Num(1)
    /\ Field("OSS K-8") = Num(1) /\ Field("OSS 9-12") = None
    /\ Field("EX K-8") = None /\ Field("EX 9-12") = Num(1)
    /\ Len(rows) = 1 /\ rows[1].School = school.name
    /\ rows[1].Students = None /\ rows[1].Teachers = Dec(0, 5)
    /\ rows[1].OSS = Num(1) /\ rows[1].EX = None

(***************************************************************************)
(* Properties of the corrections (SpecCorrect)                             *)
(***************************************************************************)
Corrected == pc = "corrected"

\* C9: with "Ohio Virtual Academy" in the text, SWD K-8 = 1 on entry gives
\* SWD K-8 = 1432 and SWD 9-12 = 1 on entry gives SWD 9-12 = 1431, whatever
\* the other rules find.
C9_LargeNumberRestored ==
    (Corrected /\ Contains(ocr_text, Str(<<"Ohio", "Virtual", "Academy">>))) =>
        /\ Get(data, "SWD K-8") = Num(1) => Get(ocr_data, "SWD K-8") = Num(1432)
        /\ Get(data, "SWD 9-12") = Num(1) => Get(ocr_data, "SWD 9-12") = Num(1431)

\* C9 witness: both counts were 1, the text also held the SWD labels the
\* double-digit rule looks for and the name the missing-value rule looks for,
\* and the output holds 1432 and 1431.
C9_Witness ==
    /\ Corrected
    /\ Contains(ocr_text, Str(<<"Ohio", "Virtual", "Academy">>))
    /\ Contains(ocr_text, Str(<<"Western", "Toledo", "Preparatory">>))
    /\ Contains(ocr_text, Str(<<"SWD", "in", "grades", "K-8:">>))
    /\ Contains(ocr_text, Str(<<"SWD", "in", "grades", "9-12:">>))
    /\ Get(data, "SWD K-8") = Num(1) /\ Get(data, "SWD 9-12") = Num(1)
    /\ Get(ocr_data, "SWD K-8") = Num(1432) /\ Get(ocr_data, "SWD 9-12") = Num(1431)

\* C19: correcting a corrected map changes nothing, and so for each of the
\* four rules applied twice.
C19_CorrectionsIdempotent ==
    Corrected =>
        /\ apply_ocr_corrections(ocr_data, ocr_text) = ocr_data
        /\ LET once == _apply_double_digit_corrections(data, ocr_text)
           IN  _apply_double_digit_corrections(once, ocr_text) = once
        /\ LET once == _apply_large_number_corrections(data, ocr_text)
           IN  _apply_large_number_corrections(once, ocr_text) = once
        /\ LET once == _apply_missing_data_corrections(data, ocr_text)
           IN  _apply_missing_data_corrections(once, ocr_text) = once
        /\ LET once == _apply_context_based_corrections(data, ocr_text)
           IN  _apply_context_based_corrections(once, ocr_text) = once

\* The missing-value rule wrote the student count the leading-zero rule then
\* read: the map was changed twice on the first pass.
C19_Witness ==
    /\ Corrected
    /\ "SWD K-8" \notin DOMAIN data
    /\ Get(data, "IS K-8") = Num(5)
    /\ Get(ocr_data, "SWD K-8") = Num(4)
    /\ Get(ocr_data, "IS K-8") = Dec(0, 5)
    /\ apply_ocr_corrections(ocr_data, ocr_text) = ocr_data

\* The four rules by name, and the rules applied in a given order.
RuleNames == {"double_digit", "large_number", "missing_data", "context_based"}

ApplyRule(rule, d, text) ==
    CASE rule = "double_digit"  -> _apply_double_digit_corrections(d, text)
      [] rule = "large_number"  -> _apply_large_number_corrections(d, text)
      [] rule = "missing_data"  -> _apply_missing_data_corrections(d, text)
      [] rule = "context_based" -> _apply_context_based_corrections(d, text)

Orders == { o \in [1..4 -> RuleNames] : \A a, b \in 1..4 : a # b => o[a] # o[b] }

ApplyInOrder(o, d, text) ==
    ApplyRule(o[4], ApplyRule(o[3], ApplyRule(o[2], ApplyRule(o[1], d, text), text), text), text)

Position(o, rule) == CHOOSE k \in 1..4 : o[k] = rule

\* C20 as stated: the rules applied in any order give the result of the fixed
\* order.
C20_AnyOrderSameResult ==
    Corrected => \A o \in Orders : ApplyInOrder(o, data, ocr_text) = ocr_data

\* C20 as amended: the rules applied in any order in which the context-based
\* rules come after the large-number rule and the missing-value rule give the
\* result of the fixed order.
C20_OrderFreeBeforeContextRules ==
    Corrected =>
        \A o \in Orders :
            ( /\ Position(o, "context_based") > Position(o, "large_number")
              /\ Position(o, "context_based") > Position(o, "missing_data") )
            => ApplyInOrder(o, data, ocr_text) = ocr_data

\* Three rules fire, and the order missing-value, context-based, large-number,
\* double-digit gives the result of the fixed order.
C20_Witness ==
    /\ Corrected
    /\ Get(data, "SWD K-8") = Num(0)
    /\ Get(data, "SWD 9-12") = Num(1)
    /\ Get(data, "IS K-8") = Num(1)
    /\ Get(ocr_data, "SWD K-8") = Num(4)
    /\ Get(ocr_data, "SWD 9-12") = Num(1431)
    /\ Get(ocr_data, "IS K-8") = Num(11)
    /\ ApplyInOrder(<<"missing_data", "large_number", "context_based", "double_digit">>,
                    data, ocr_text) = ocr_data

\* The student count paired with an IS field.
PairedSWD(field) == IF field = "IS K-8" THEN "SWD K-8" ELSE "SWD 9-12"

BetweenZeroAndTwenty(d, field) ==
    /\ PairedSWD(field) \in DOMAIN d
    /\ d[PairedSWD(field)] > Num(0)
    /\ d[PairedSWD(field)] < Num(20)

\* C23 as stated: for every text, an IS field holding 5 becomes 0.5 when the
\* paired SWD count of the given map is strictly between 0 and 20, and stays 5
\* when that count is absent, 0, or 20 or more.
C23_FiveBecomesHalf ==
    Corrected =>
        \A field \in ISLabels :
            Get(data, field) = Num(5) =>
                Get(ocr_data, field) =
                    IF BetweenZeroAndTwenty(data, field) THEN Dec(0, 5) ELSE Num(5)

\* C23 as amended: an IS field holding 5 becomes 0.5 when the text contains
\* "Number of IS serving grades" and the paired SWD count of the returned map
\* (the given count as the large-number and missing-value rules left it) is
\* strictly between 0 and 20; otherwise it stays 5.
C23_FiveBecomesHalfInContext ==
    Corrected =>
        \A field \in ISLabels :
            Get(data, field) = Num(5) =>
                Get(ocr_data, field) =
                    IF /\ Contains(ocr_text, NUMBER_OF_IS_SERVING_GRADES)
                       /\ BetweenZeroAndTwenty(ocr_data, field)
                    THEN Dec(0, 5) ELSE Num(5)

\* C23 witness: in one map the 9-12 field went from 5 to 0.5 beside a count of
\* 19, and the K-8 field stayed 5 beside a count of 1 restored to 1432.
C23_Witness ==
    /\ Corrected
    /\ Contains(ocr_text, NUMBER_OF_IS_SERVING_GRADES)
    /\ Get(data, "IS 9-12") = Num(5) /\ Get(data, "SWD 9-12") = Num(19)
    /\ Get(ocr_data, "IS 9-12") = Dec(0, 5)
    /\ Get(data, "IS K-8") = Num(5) /\ Get(data, "SWD K-8") = Num(1)
    /\ Get(ocr_data, "SWD K-8") = Num(1432)
    /\ Get(ocr_data, "IS K-8") = Num(5)

\* The label holds another value after the corrections than before (a label
\* without an entry holds None).
Changed(label) ==
    \/ (label \in DOMAIN data) # (label \in DOMAIN ocr_data)
    \/ Get(data, label) # Get(ocr_data, label)

\* C25: a label's value changes only from a trigger value of the label: the
\* IS fields from 1, 45 or 5, SWD 9-12 from 1, SWD K-8 from 1, 0 or missing;
\* the seven other labels never change; no key is removed and no key other
\* than SWD K-8 is added.
C25_ChangesOnlyFromTriggers ==
    Corrected =>
        /\ \A l \in ISLabels :
              Changed(l) => (l \in DOMAIN data /\ data[l] \in {Num(1), Num(45), Num(5)})
        /\ Changed("SWD 9-12") => Get(data, "SWD 9-12") = Num(1)
        /\ Changed("SWD K-8") =>
              ("SWD K-8" \notin DOMAIN data \/ data["SWD K-8"] \in {Num(1), Num(0)})
        /\ \A l \in OtherLabels : ~Changed(l)
        /\ DOMAIN data \subseteq DOMAIN ocr_data
        /\ DOMAIN ocr_data \ DOMAIN data \subseteq {"SWD K-8"}

\* C25 witness: every other label held 1 under its own label in a text with
\* the "Number of IS serving grades" context, the IS fields held values no
\* rule looks for, SWD K-8 was added, and only IS and SWD values changed.
C25_Witness ==
    /\ Corrected
    /\ Contains(ocr_text, NUMBER_OF_IS_SERVING_GRADES)
    /\ Contains(ocr_text, Str(<<"Substitutes:">>))
    /\ Contains(ocr_text, Str(<<"MDM:">>))
    /\ \A l \in OtherLabels : Get(data, l) = Num(1) /\ Get(ocr_data, l) = Num(1)
    /\ Get(data, "IS K-8") = Num(2) /\ Get(ocr_data, "IS K-8") = Num(2)
    /\ Get(data, "IS 9-12") = Num(45) /\ Get(ocr_data, "IS 9-12") = Dec(4, 5)
    /\ "SWD K-8" \notin DOMAIN data /\ Get(ocr_data, "SWD K-8") = Num(4)
    /\ Get(data, "SWD 9-12") = Num(19) /\ Get(ocr_data, "SWD 9-12") = Num(19)

(***************************************************************************)
(* Properties of the OCR extraction (SpecOcr)                              *)
(***************************************************************************)
Extracted == pc = "extracted"

\* The label occurs in the text, in any case, followed by optional white space
\* and a digit.
LabelThenDigit(text, label) ==
    \E i \in 1..Len(text) :
        \E n \in 0..Len(text) :
            /\ i + Len(label) + n <= Len(text)
            /\ \A q \in 1..Len(label) : Lower(text[i + q - 1]) = Lower(label[q])
            /\ \A q \in 1..n : text[i + Len(label) + q - 1] \in {" ", "\n"}
            /\ text[i + Len(label) + n] \in Digits

\* One of the three OSS 9-12 patterns with digits matches the text.
EarlierOssPatternMatches(text) ==
    \/ LabelThenDigit(text, Str(<<"OSS", "of", "SWD", "9-12:">>))
    \/ LabelThenDigit(text, Str(<<"OSS", "9-12:">>))
    \/ LabelThenDigit(text, Str(<<"OSS", "of", "SWD9-12:">>))

\* C10: a text containing "OSS of SWD9-12: go" that none of the OSS 9-12
\* patterns with digits matches gives OSS 9-12 = 60, before and after the
\* corrections.
C10_GoIsSixty ==
    (/\ Extracted
     /\ Contains(ocr_text, Str(<<"OSS", "of", "SWD9-12:">>) \o <<" ", "go">>)
     /\ ~EarlierOssPatternMatches(ocr_text))
        => /\ Get(data, "OSS 9-12") = Num(60)
           /\ Get(ocr_data, "OSS 9-12") = Num(60)

\* C10 witness: "OSS of SWD9-12: go" was read below the name of the school
\* and OSS 9-12 is 60 in both maps.
C10_Witness ==
    /\ Extracted
    /\ Contains(ocr_text, Str(<<"OSS", "of", "SWD9-12:">>) \o <<" ", "go">>)
    /\ Contains(ocr_text, Str(<<"Ohio", "Virtual", "Academy">>))
    /\ ~EarlierOssPatternMatches(ocr_text)
    /\ Get(data, "OSS 9-12") = Num(60)
    /\ Get(ocr_data, "OSS 9-12") = Num(60)

\* The label of an IS field in the "Number of IS serving grades" context.
ServingLabel(field) ==
    IF field = "IS K-8" THEN Str(<<"Number", "of", "IS", "serving", "grades", "K-8:">>)
    ELSE Str(<<"Number", "of", "IS", "serving", "grades", "9-12:">>)

\* C24: whenever the extractor, matching that label in any case, read 1 (or
\* 1.0) for an IS field under its "Number of IS serving grades" label, the
\* corrected map holds 11 for the field.
C24_OneUnderServingLabelIsEleven ==
    Extracted =>
        \A field \in ISLabels :
            ( /\ Get(data, field) = Num(1)
              /\ LabelThenDigit(ocr_text, ServingLabel(field)) )
            => Get(ocr_data, field) = Num(11)

\* The patterns of a label that match the text, in any case, by their place
\* in the label's list.
Matching(field) ==
    { i \in 1..Len(patterns[field]) :
        Search(folded_patterns[field][i], CaseFold(ocr_text)).ok }

\* The digits pattern i of the label captured.
Group(field, i) == Search(folded_patterns[field][i], CaseFold(ocr_text)).group

Whole(v) == v % 10 = 0

\* C27: before the corrections a label has an entry iff one of its patterns
\* matches the text in any case; the value is the one of the first pattern of
\* the label's list that matches, whatever later patterns match: the captured
\* digits read as a decimal for IS K-8 and IS 9-12 and as an integer for every
\* other label (60 for the pattern without digits).
C27_FirstMatchingPatternWins ==
    Extracted =>
        \A field \in Labels :
            \E matching \in { Matching(field) } :
                /\ (field \in DOMAIN data) <=> (matching # {})
                /\ \A first \in matching :
                      (\A j \in matching : first <= j) =>
                          IF patterns[field][first] = go_pattern
                          THEN data[field] = Num(60)
                          ELSE \E group \in { Group(field, first) } :
                                  IF field \in ISLabels
                                  THEN data[field] = FloatParse(group)
                                  ELSE /\ data[field] = Num(IntParse(group))
                                       /\ Whole(data[field])
                                       /\ \A k \in 1..Len(group) : group[k] \in Digits

\* C27 witness: the second OSS 9-12 pattern matched the first line with 1,
\* the first pattern the second line with 3, and the value is 3; no MDM
\* pattern matched and MDM has no entry.
C27_Witness ==
    /\ Extracted
    /\ ocr_text = JoinLines(<< Str(<<"OSS", "9-12:">>) \o <<" ", "1">>,
                               Str(<<"OSS", "of", "SWD", "9-12:">>) \o <<" ", "3">> >>)
    /\ Matching("OSS 9-12") = {1, 2}
    /\ data["OSS 9-12"] = Num(3)
    /\ Matching("MDM") = {}
    /\ "MDM" \notin DOMAIN data

(***************************************************************************)
(* Properties of school_from_pdf (SpecPipeline)                            *)
(***************************************************************************)
Returned == pc = "returned" /\ doc.opens

\* S: the whole numbers the page text prints, in order, after the first 37.
AfterFirst37 ==
    SubSeq(doc.text.written, 38, Len(doc.text.written))

\* The offsets of the labels as the fixed offset table states them.
TableOffset(label) ==
    CASE label = "Sub"      -> 1   [] label = "IS 9-12"  -> 2
      [] label = "SWD K-8"  -> 4   [] label = "SWD 9-12" -> 5
      [] label = "OSS K-8"  -> 9   [] label = "OSS 9-12" -> 10
      [] label = "EX K-8"   -> 11  [] label = "EX 9-12"  -> 12
      [] label = "ER"       -> 13  [] label = "MDM"      -> 14
      [] label = "IS K-8"   -> 15

TableLabels ==
    {"Sub", "IS 9-12", "SWD K-8", "SWD 9-12", "OSS K-8", "OSS 9-12",
     "EX K-8", "EX 9-12", "ER", "MDM", "IS K-8"}

\* The entries the record holds for a label.
Entries(label) == { k \in DOMAIN school.data_list : school.data_list[k].label = label }

\* The record binds the label to S[offset] when the offset is within S, and has
\* no entry for it otherwise.
BoundByOffset(label) ==
    IF TableOffset(label) < Len(AfterFirst37)
    THEN /\ Cardinality(Entries(label)) = 1
         /\ \A k \in Entries(label) :
                school.data_list[k].value = AfterFirst37[TableOffset(label) + 1]
    ELSE Entries(label) = {}

\* The OCR map holds at least one non-null value.
OcrHasValue ==
    /\ ~ocr_result.none
    /\ \E l \in DOMAIN ocr_result.map : ocr_result.map[l] # None

\* The number-based strategy ran: the OCR map gave nothing and the page text
\* was read.
FallbackRan == Returned /\ ~OcrHasValue /\ ~doc.text.raises

\* C11: for every plain text, the fallback field map binds each label to
\* S[offset(label)] for exactly the labels whose offset is within S (S: the
\* numbers of the text after the first 37), has no entry for the other labels,
\* and a short S never makes the extraction fail.
C11_FallbackBindsOffsets ==
    FallbackRan =>
        /\ returned = "School"
        /\ \A k \in DOMAIN school.data_list : school.data_list[k].label \in TableLabels
        /\ \A label \in TableLabels : BoundByOffset(label)

\* Some labels are bound and some are not, and a bound value is not zero.
C11_Witness ==
    /\ FallbackRan
    /\ Len(AfterFirst37) = 6
    /\ Entries("SWD 9-12") # {}
    /\ Entries("OSS K-8") = {}
    /\ \E k \in Entries("SWD K-8") : school.data_list[k].value = Num(9)

\* C12: the record never mixes strategies: with a non-null value in the OCR
\* map every field is the OCR map's (absent for a label the map lacks);
\* otherwise every field is the number-based one.
C12_NeverMixesStrategies ==
    Returned =>
        IF OcrHasValue
        THEN /\ returned = "School"
             /\ \A label \in TableLabels :
                    Field(label) = IF label \in DOMAIN ocr_result.map
                                   THEN ocr_result.map[label] ELSE None
        ELSE returned = "School" =>
                \A k \in DOMAIN school.data_list :
                    /\ TableOffset(school.data_list[k].label) < Len(AfterFirst37)
                    /\ school.data_list[k].value =
                           AfterFirst37[TableOffset(school.data_list[k].label) + 1]

\* The OCR map lacks a label for which the page text holds a number.
C12_Witness ==
    /\ Returned
    /\ OcrHasValue
    /\ returned = "School"
    /\ "IS K-8" \notin DOMAIN ocr_result.map
    /\ Len(AfterFirst37) > 15
    /\ AfterFirst37[16] # Num(0)
    /\ Field("IS K-8") = None

\* C13: on the OCR path and on the fallback path alike, isBoth is true iff the
\* located name is on the roster; "Unknown School" gives isBoth = false.
C13_IsBothIffOnRoster ==
    (Returned /\ returned = "School") =>
        /\ school.name = school_name
        /\ school.is_both <=> (school_name \in es_and_hs_schools)
        /\ school_name = "Unknown School" => ~school.is_both

\* A record of the fallback path whose name is on the roster.
C13_Witness ==
    /\ FallbackRan
    /\ returned = "School"
    /\ school_name = "Ohio Virtual Academy"
    /\ school.is_both

\* The layout's list of blocks is missing, empty, or shorter than 19.
FewerThan19Blocks ==
    /\ ~doc.layout.raises
    /\ \/ "blocks" \notin DOMAIN doc.layout.dict
       \/ Len(doc.layout.dict.blocks) < 19

\* C14: with fewer than 19 blocks (an empty or missing list included) the
\* name is "Unknown School", and no index error leaves the call.
C14_FewBlocksGiveUnknown ==
    (Returned /\ FewerThan19Blocks) =>
        /\ school_name = "Unknown School"
        /\ returned # "raise"

\* A layout of 18 blocks, each with text.
C14_Witness ==
    /\ Returned
    /\ "blocks" \in DOMAIN doc.layout.dict
    /\ Len(doc.layout.dict.blocks) = 18
    /\ school_name = "Unknown School"

\* The block at the name index, when the layout has one.
HasNameBlock ==
    /\ ~doc.layout.raises
    /\ "blocks" \in DOMAIN doc.layout.dict
    /\ Len(doc.layout.dict.blocks) >= 19
NameBlock == doc.layout.dict.blocks[19]

\* The malformed shapes: a block without lines, a first line without a spans
\* entry, a span without text.
Malformed ==
    /\ HasNameBlock
    /\ \/ "lines" \notin DOMAIN NameBlock
       \/ /\ "lines" \in DOMAIN NameBlock
          /\ Len(NameBlock.lines) > 0
          /\ \/ "spans" \notin DOMAIN NameBlock.lines[1]
             \/ /\ "spans" \in DOMAIN NameBlock.lines[1]
                /\ \E k \in DOMAIN NameBlock.lines[1].spans :
                       "text" \notin DOMAIN NameBlock.lines[1].spans[k]

\* C15: for every layout the name is a string and nothing is thrown; with a
\* missing or malformed name block the extraction goes on under the
\* placeholder name.
C15_NameLocatorNeverThrows ==
    Returned =>
        /\ returned # "raise"
        /\ school_name \in STRING
        /\ (Malformed \/ FewerThan19Blocks) =>
              /\ school_name = "Unknown School"
              /\ (~doc.text.raises \/ OcrHasValue) =>
                    (returned = "School" /\ school.name = "Unknown School")

\* A span without text after a span with text: the extraction went on.
C15_Witness ==
    /\ Returned
    /\ HasNameBlock
    /\ "lines" \in DOMAIN NameBlock
    /\ Len(NameBlock.lines) > 0
    /\ "spans" \in DOMAIN NameBlock.lines[1]
    /\ Len(NameBlock.lines[1].spans) = 2
    /\ "text" \notin DOMAIN NameBlock.lines[1].spans[2]
    /\ returned = "School"
    /\ school.name = "Unknown School"
    /\ school.data_list # << >>

\* C16: when OCR yields no field and the number-based strategy binds no label
\* (at most one number is left after the first 37), no record is returned.
C16_EmptyExtractionIsSkipped ==
    (FallbackRan /\ Len(AfterFirst37) <= 1) => returned = "None"

\* C17: when the OCR step raises, no exception leaves the call, and the record
\* is built from the numbers of the same document's plain text.
C17_OcrRaiseFallsBack ==
    (Returned /\ doc.image.raises) =>
        /\ returned # "raise"
        /\ ocr_result.none
        /\ ~doc.text.raises =>
              /\ returned = "School"
              /\ refined_numbers = AfterFirst37
              /\ \A label \in TableLabels : BoundByOffset(label)

\* The OCR step raised and the record holds all eleven labels.
C17_Witness ==
    /\ Returned
    /\ doc.image.raises
    /\ returned = "School"
    /\ Len(school.data_list) = 11
    /\ Field("MDM") = Num(1)

\* The name block lacks lines, or its first line lacks spans: no lines entry,
\* an empty lines list, no spans entry, an empty spans list.
LacksLinesOrSpans ==
    /\ HasNameBlock
    /\ \/ "lines" \notin DOMAIN NameBlock
       \/ /\ "lines" \in DOMAIN NameBlock
          /\ \/ Len(NameBlock.lines) = 0
             \/ /\ Len(NameBlock.lines) > 0
                /\ \/ "spans" \notin DOMAIN NameBlock.lines[1]
                   \/ /\ "spans" \in DOMAIN NameBlock.lines[1]
                      /\ Len(NameBlock.lines[1].spans) = 0

\* C22: when the block at the name index lacks lines or its first line lacks
\* spans, the name is "Unknown School" and never the empty string.
C22_NoLinesOrSpansGiveUnknown ==
    (Returned /\ LacksLinesOrSpans) =>
        /\ school_name = "Unknown School"
        /\ school_name # ""

\* A record was built.
Built == Returned /\ returned = "School"

\* C26 as stated: a record built on either path holds exactly one entry for
\* each of the 11 labels.
C26_OneEntryForEveryLabel ==
    Built => \A label \in Labels : Cardinality(Entries(label)) = 1

\* C26 as amended: a record never holds two entries for a label; built from
\* the OCR map it holds exactly one entry for each of the 11 labels (its value
\* possibly absent); built by the number-based strategy it holds one entry for
\* exactly the labels whose offset is within the numbers left after the first
\* 37, and a label without an entry reads as an absent value.
C26_AtMostOneEntryPerLabel ==
    Built =>
        /\ \A k \in DOMAIN school.data_list : school.data_list[k].label \in Labels
        /\ \A label \in Labels : Cardinality(Entries(label)) <= 1
        /\ OcrHasValue =>
              /\ Len(school.data_list) = 11
              /\ \A label \in Labels : Cardinality(Entries(label)) = 1
        /\ ~OcrHasValue =>
              \A label \in Labels :
                  (Cardinality(Entries(label)) = 1) <=> (TableOffset(label) < Len(AfterFirst37))
        /\ \A label \in Labels : Entries(label) = {} => _get(school, label) = None

\* C26 witness: the number-based strategy built a record with entries for
\* some of the labels only, one entry each.
C26_Witness ==
    /\ Built
    /\ ~OcrHasValue
    /\ Len(school.data_list) \in 1..10
    /\ Entries("Sub") # {}
    /\ Entries("IS K-8") = {}
    /\ _get(school, "IS K-8") = None
    /\ \A label \in Labels : Cardinality(Entries(label)) <= 1

(***************************************************************************)
(* Properties of a batch run (SpecBatch)                                   *)
(***************************************************************************)
\* The k-th document gives no rows: it cannot be written or opened, it yields
\* no record, or an exception leaves its processing.
DocumentFails(k) ==
    \/ ~pdfs[k].saved
    \/ school_from_pdf(pdfs[k].file).kind # "School"

\* The rows of the k-th document taken alone.
RowsOfDocument(k) ==
    IF DocumentFails(k) THEN << >>
    ELSE build_rows_for_school(school_from_pdf(pdfs[k].file).school)

RECURSIVE RowsUpTo(_)
RowsUpTo(n) == IF n = 0 THEN << >> ELSE RowsUpTo(n - 1) \o RowsOfDocument(n)

FailedUpTo(n) == SelectSeq([ k \in 1..n |-> k ], DocumentFails)

\* The same rows, each as many times, in any order.
Occurrences(seq, r) == Cardinality({ k \in DOMAIN seq : seq[k] = r })
SameRows(a, b) ==
    /\ Len(a) = Len(b)
    /\ \A k \in DOMAIN a : Occurrences(a, a[k]) = Occurrences(b, a[k])

\* C18: the documents are gone through once each, in order, whatever the
\* earlier ones did: a document that fails is recorded as failed and adds no
\* row, the rows of the others are those each gives alone, and at the end
\* successful + failed = n.
C18_BatchIsolatesFailures ==
    pc \in {"batch", "done"} =>
        /\ processed \in 0..Len(pdfs)
        /\ successful_pdfs + Len(failed_pdfs) = processed
        /\ [ k \in 1..Len(failed_pdfs) |-> failed_pdfs[k].pdf ] = FailedUpTo(processed)
        /\ pc = "batch" => all_rows = RowsUpTo(processed)
        /\ pc = "done" =>
              /\ processed = Len(pdfs)
              /\ successful_pdfs + Len(failed_pdfs) = Len(pdfs)
              /\ SameRows(all_rows, RowsUpTo(Len(pdfs)))
              /\ SameRows(sheet, RowsUpTo(Len(pdfs)))

\* An upload that raises, then a file that does not open, then a school that
\* gives two rows.
C18_Witness ==
    /\ pc = "done"
    /\ Len(pdfs) = 3
    /\ ~pdfs[1].saved
    /\ ~pdfs[2].file.opens
    /\ successful_pdfs = 1
    /\ Len(failed_pdfs) = 2
    /\ failed_pdfs[1].raised
    /\ Len(sheet) = 2

(***************************************************************************)
(* Properties of the calls on objects (SpecObjects)                        *)
(***************************************************************************)
\* What the objects a call returned hold.
Returned_rows == [ k \in 1..Len(result) |-> heap[result[k]] ]

\* C28: after build_rows_for_school the School object holds the name, the
\* is_both flag and the data_list it held before (zeros included), a second
\* call on it gives rows equal to those of the first, and
\* apply_ocr_corrections returns a map object other than the one it was
\* given, which holds what it held before.
C28_InputsLeftUnchanged ==
    /\ pc \in {"rows", "rows again"} =>
          /\ heap[given] = school
          /\ \A k \in 1..Len(result) : result[k] # given
    /\ pc = "rows" => Returned_rows = build_rows_for_school(school)
    /\ pc = "rows again" => Returned_rows = rows
    /\ pc = "corrected" =>
          /\ heap[given] = data
          /\ result[1] # given
          /\ heap[result[1]] = ocr_data

\* C28 witness: a School on the roster with a 9-12 student count of 0: both
\* calls gave an HS row without Students, and the School object still holds
\* the 0.
C28_Witness ==
    /\ pc = "rows again"
    /\ school.is_both
    /\ _get(school, "SWD 9-12") = Num(0)
    /\ Len(rows) = 2 /\ rows[2].Students = None
    /\ Returned_rows = rows
    /\ _get(heap[given], "SWD 9-12") = Num(0)
    /\ heap[given] = school

(***************************************************************************)
(* Properties of two runs that differ in VERBOSE (SpecVerbose)             *)
(***************************************************************************)
Compared == pc = "compared"

\* C29: two runs on the same inputs that differ only in VERBOSE give the same
\* corrected field map, the same record (or none), the same rows and the same
\* counts of successes and failures; the flag only decides whether the lines
\* are printed.
C29_VerboseOnlyPrints ==
    Compared =>
        /\ first_run.corrected = ocr_data
        /\ first_run.outcome.ocr_result = ocr_result
        /\ first_run.outcome.kind = returned
        /\ first_run.outcome.school = school
        /\ first_run.outcome.school_name = school_name
        /\ first_run.tally.all_rows = all_rows
        /\ first_run.tally.successful_pdfs = successful_pdfs
        /\ first_run.tally.failed_pdfs = failed_pdfs
        /\ ~verbose => log = << >>
        /\ verbose => first_run.log = << >>

\* C29 witness: the document gave a record by OCR with a count restored to
\* 1432; the verbose run printed the correction and the quiet one nothing,
\* and both gave the same record and rows.
C29_Witness ==
    /\ Compared
    /\ verbose
    /\ returned = "School"
    /\ Get(ocr_result.map, "SWD K-8") = Num(1432)
    /\ first_run.log = << >>
    /\ \E k \in 1..Len(log) :
           log[k].line = "[OCR CORRECTION]" /\ log[k].field = "SWD K-8"
    /\ log[Len(log)].line = "[OCR] Extracted data"
    /\ first_run.outcome.school = school
    /\ first_run.tally.all_rows = all_rows
    /\ successful_pdfs = 1

====
